---- MODULE Spec2Model ----
(***************************************************************************)
(* Model of the PicFrame sync dashboard backend                            *)
(* (src/web_status/status_backend.py).                                     *)
(*                                                                         *)
(* Text is modelled by TLA+ strings and parsed character by character, so  *)
(* that substring tests, strip(), split() and int() behave as in Python.   *)
(* An optional value (int|None, str|None) is the empty tuple for None and  *)
(* a one-element tuple for a value.                                        *)
(***************************************************************************)
EXTENDS Integers, Sequences, FiniteSets, TLC

(***************************************************************************)
(* Bounds of the model.                                                    *)
(***************************************************************************)
\* longest stdout, in lines, of the quick-check script
MaxLines == 3

\* longest log, in lines, among the logs enumerated line by line
MaxLogLines == 3

\* lines a long log has beyond the TailMax that the tail keeps
MaxExtra == 2

\* get_status_payload executions in progress at once
MaxRequests == 2

\* lines of the registry beyond which no source is added
MaxRegistryLines == 3

(***************************************************************************)
(* Python values and string methods.                                       *)
(***************************************************************************)
None == <<>>

Some(v) == <<v>>

\* Python's "x or y" for an optional string x: None and "" are falsy
OrElse(x, y) == IF x = None \/ x = Some("") THEN y ELSE x[1]

UpperChars == "ABCDEFGHIJKLMNOPQRSTUVWXYZ"

LowerChars == "abcdefghijklmnopqrstuvwxyz"

Digits == {"0", "1", "2", "3", "4", "5", "6", "7", "8", "9"}

Whitespace == {" ", "\t", "\n", "\r"}

CharAt(s, i) == SubSeq(s, i, i)

LowerOf ==
  [c \in {CharAt(UpperChars, i) : i \in 1..26} |->
     CharAt(LowerChars, CHOOSE i \in 1..26 : CharAt(UpperChars, i) = c)]

RECURSIVE Lower(_)
\* str.lower()
Lower(s) ==
  IF s = "" THEN ""
  ELSE LET c == CharAt(s, 1)
       IN (IF c \in DOMAIN LowerOf THEN LowerOf[c] ELSE c)
            \o Lower(SubSeq(s, 2, Len(s)))

\* needle in s
Contains(s, needle) ==
  \E i \in 1..(Len(s) - Len(needle) + 1) :
     SubSeq(s, i, i + Len(needle) - 1) = needle

\* s.startswith(prefix)
StartsWith(s, prefix) ==
  Len(prefix) <= Len(s) /\ SubSeq(s, 1, Len(prefix)) = prefix

\* s.strip(chars), chars a set of characters
StripChars(s, chars) ==
  LET keep == {i \in 1..Len(s) : CharAt(s, i) \notin chars}
  IN IF keep = {} THEN ""
     ELSE SubSeq(s, CHOOSE i \in keep : \A j \in keep : i <= j,
                    CHOOSE i \in keep : \A j \in keep : j <= i)

\* s.strip()
Strip(s) == StripChars(s, Whitespace)

\* s.split(sep, 1) for a one-character sep: one or two parts
Split1(s, sep) ==
  LET at == {i \in 1..Len(s) : CharAt(s, i) = sep}
  IN IF at = {} THEN <<s>>
     ELSE LET p == CHOOSE i \in at : \A j \in at : i <= j
          IN <<SubSeq(s, 1, p - 1), SubSeq(s, p + 1, Len(s))>>

\* s.split()[0] as an optional: the first whitespace-delimited token, None
\* where Python raises IndexError (no token)
FirstToken(s) ==
  LET t == Strip(s)
      ws == {i \in 1..Len(t) : CharAt(t, i) \in Whitespace}
  IN IF t = "" THEN None
     ELSE IF ws = {} THEN Some(t)
     ELSE Some(SubSeq(t, 1, (CHOOSE i \in ws : \A j \in ws : i <= j) - 1))

DigitValue(c) == CHOOSE d \in 0..9 : CharAt("0123456789", d + 1) = c

RECURSIVE DecimalValue(_, _)
DecimalValue(s, acc) ==
  IF s = "" THEN acc
  ELSE IF CharAt(s, 1) = "_" THEN DecimalValue(SubSeq(s, 2, Len(s)), acc)
  ELSE DecimalValue(SubSeq(s, 2, Len(s)), 10 * acc + DigitValue(CharAt(s, 1)))

\* int(tok) as an optional: None where Python raises ValueError.  int()
\* accepts an optional sign, then digits with single underscores between them.
ParseInt(tok) ==
  LET signed == tok # "" /\ CharAt(tok, 1) \in {"+", "-"}
      body == IF signed THEN SubSeq(tok, 2, Len(tok)) ELSE tok
      wellFormed ==
        /\ body # ""
        /\ \A i \in 1..Len(body) : CharAt(body, i) \in Digits \cup {"_"}
        /\ CharAt(body, 1) # "_" /\ CharAt(body, Len(body)) # "_"
        /\ \A i \in 1..(Len(body) - 1) :
              ~(CharAt(body, i) = "_" /\ CharAt(body, i + 1) = "_")
  IN IF ~wellFormed THEN None
     ELSE IF signed /\ CharAt(tok, 1) = "-" THEN Some(0 - DecimalValue(body, 0))
     ELSE Some(DecimalValue(body, 0))

(***************************************************************************)
(* The collaborators of one request, and what the request returned.       *)
(***************************************************************************)
VARIABLES
  cfg,       \* config_manager: "absent", "present" or "error" (lookup raises)
  chk,       \* the quick-check process: [exc, stdout, stderr, returncode]
  log,       \* the log file: [state, lines]
  svc,       \* the service manager: outcomes of systemctl, loginctl, pgrep
  conf,      \* the frame_sources.conf file: [state, lines]
  op,        \* the operation that ran last ("none" before any)
  quick,     \* run_quick_check's result (None: not run, or it raised)
  log_info,  \* parse_log's result (None: not run, or it raised)
  payload,   \* get_status_payload's result (None: not run, or it raised)
  raised,    \* the exception that escaped the operation (None: it returned)
  probe,     \* _systemctl_status's result, with its argument (None: not run)
  linger,    \* whether session linger is enabled for user pi (logind's state)
  arg,       \* what the caller asks for: [user, runner]
  tool,      \* the script an action runner launches: [state, proc]
  result,    \* an action runner's {ok, output} (None: not run, or it raised)
  req,       \* the request served command by command: [handler, todo, running, ...]
  resp,      \* what that request answered: [handler, failed]
  frames,    \* the locals of each get_status_payload execution in progress
  eol,       \* whether the last line of frame_sources.conf ends with a newline
  bak,       \* frame_sources.conf.backup: None, or the [lines, eol] copied
  dirs,      \* the directories that exist
  live,      \* where the frame_live symlink points (None: no link)
  call,      \* the arguments of the registry or symlink operation that ran last
  adds       \* the add_source_to_conf executions in progress

vars ==
  <<cfg, chk, log, svc, conf, op, quick, log_info, payload, raised, probe, linger,
    arg, tool, result, req, resp, frames, eol, bak, dirs, live, call, adds>>

\* the requests followed step by step
steps == <<req, resp, frames>>

\* the registry's newline and backup, the directories, the symlink, and the
\* registry operations
registry == <<eol, bak, dirs, live, call, adds>>

env == <<cfg, chk, log, svc, conf, arg, tool>>

(***************************************************************************)
(* _get_paths                                                              *)
(***************************************************************************)
DefaultPaths ==
  [log_file |-> "/home/pi/logs/frame_sync.log",
   chk_script |-> "/home/pi/picframe_3.0/ops_tools/chk_sync.sh",
   frame_sources_conf |-> "/home/pi/picframe_3.0/config/frame_sources.conf",
   app_root |-> "/home/pi/picframe_3.0"]

\* what get_derived_paths() returns on an installation that has a config
DerivedPaths ==
  [log_file |-> "/home/frame/logs/frame_sync.log",
   chk_script |-> "/home/frame/picframe_3.0/ops_tools/chk_sync.sh",
   frame_sources_conf |-> "/home/frame/picframe_3.0/config/frame_sources.conf",
   app_root |-> "/home/frame/picframe_3.0"]

\* [exc, value]: config_exists() and get_derived_paths() run unguarded
_get_paths(c) ==
  IF c = "error" THEN [exc |-> Some("config lookup failed"), value |-> None]
  ELSE IF c = "present" THEN [exc |-> None, value |-> Some(DerivedPaths)]
  ELSE [exc |-> None, value |-> Some(DefaultPaths)]

(***************************************************************************)
(* run_quick_check                                                         *)
(***************************************************************************)
\* combined = stdout, then "\n" and stderr when both are non-empty, split into
\* lines; each stream is a sequence of newline-terminated lines, so the
\* separator shows as an empty line between the two
CombinedLines(stdout, stderr) ==
  stdout \o (IF stdout # <<>> /\ stderr # <<>> THEN <<"">> ELSE <<>>) \o stderr

\* int(stripped.split(":", 1)[1].strip().split()[0]); None where it raises
CountValue(stripped) ==
  LET parts == Split1(stripped, ":")
  IN IF Len(parts) < 2 THEN None
     ELSE LET tok == FirstToken(Strip(parts[2]))
          IN IF tok = None THEN None ELSE ParseInt(tok[1])

\* LineVerdict testing "match" before "mismatch" and "differ"
LineVerdict_MatchFirst(lower) ==
  IF Contains(lower, "file counts match") \/ Contains(lower, "match")
    THEN Some("match")
  ELSE IF Contains(lower, "mismatch") \/ Contains(lower, "differ") THEN Some("differ")
  ELSE IF Contains(lower, "error") \/ Contains(lower, "failed") THEN Some("error")
  ELSE None

\* the verdict chain of a "quick check" line; None when no branch is taken
LineVerdict(lower) ==
  IF Contains(lower, "mismatch") \/ Contains(lower, "differ") THEN Some("differ")
  ELSE IF Contains(lower, "file counts match") \/ Contains(lower, "match")
    THEN Some("match")
  ELSE IF Contains(lower, "error") \/ Contains(lower, "failed") THEN Some("error")
  ELSE None

\* ScanLine where a count line that does not parse clears the count
ScanLine_ClearsOnFailure(st, line) ==
  LET stripped == Strip(line)
      lower == Lower(stripped)
      isRemote == Contains(lower, "remote file count")
      isLocal == ~isRemote /\ Contains(lower, "local") /\ Contains(lower, "file count")
      n == CountValue(stripped)
      v == IF Contains(lower, "quick check") THEN LineVerdict(lower) ELSE None
  IN [remote_count |-> IF isRemote THEN n ELSE st.remote_count,
      local_count |-> IF isLocal THEN n ELSE st.local_count,
      quick_status |-> IF v # None THEN v[1] ELSE st.quick_status]

\* one iteration of the loop over raw_lines
ScanLine(st, line) ==
  LET stripped == Strip(line)
      lower == Lower(stripped)
      isRemote == Contains(lower, "remote file count")
      isLocal == ~isRemote /\ Contains(lower, "local") /\ Contains(lower, "file count")
      n == CountValue(stripped)
      v == IF Contains(lower, "quick check") THEN LineVerdict(lower) ELSE None
  IN [remote_count |-> IF isRemote /\ n # None THEN n ELSE st.remote_count,
      local_count |-> IF isLocal /\ n # None THEN n ELSE st.local_count,
      quick_status |-> IF v # None THEN v[1] ELSE st.quick_status]

RECURSIVE ScanLines(_, _)
ScanLines(st, lines) ==
  IF lines = <<>> THEN st ELSE ScanLines(ScanLine(st, Head(lines)), Tail(lines))

\* PostStatus inferring a verdict as soon as one count is present
PostStatus_InferFromAnyCount(st, returncode) ==
  IF st.quick_status # "unknown" THEN st.quick_status
  ELSE IF returncode # 0 /\ st.remote_count = None /\ st.local_count = None
    THEN "error"
  ELSE IF st.remote_count # None \/ st.local_count # None
    THEN (IF st.remote_count = st.local_count THEN "match" ELSE "differ")
  ELSE "unknown"

\* PostStatus without the step that turns a failed run into "error"
PostStatus_NoForcedError(st, returncode) ==
  IF st.quick_status # "unknown" THEN st.quick_status
  ELSE IF st.remote_count # None /\ st.local_count # None
    THEN (IF st.remote_count = st.local_count THEN "match" ELSE "differ")
  ELSE "unknown"

\* PostStatus inferring from the counts only when the script exited 0
PostStatus_InferOnlyOnSuccess(st, returncode) ==
  IF st.quick_status # "unknown" THEN st.quick_status
  ELSE IF returncode # 0 /\ st.remote_count = None /\ st.local_count = None
    THEN "error"
  ELSE IF returncode = 0 /\ st.remote_count # None /\ st.local_count # None
    THEN (IF st.remote_count = st.local_count THEN "match" ELSE "differ")
  ELSE "unknown"

\* quick_status after the two post-processing steps that follow the loop
PostStatus(st, returncode) ==
  IF st.quick_status # "unknown" THEN st.quick_status
  ELSE IF returncode # 0 /\ st.remote_count = None /\ st.local_count = None
    THEN "error"
  ELSE IF st.remote_count # None /\ st.local_count # None
    THEN (IF st.remote_count = st.local_count THEN "match" ELSE "differ")
  ELSE "unknown"

\* error_msg after the loop
PostError(st, returncode) ==
  IF returncode # 0 /\ st.remote_count = None /\ st.local_count = None
  THEN Some("chk_sync.sh exited " \o ToString(returncode))
  ELSE None

ScanStart ==
  [remote_count |-> None, local_count |-> None, quick_status |-> "unknown"]

\* the dict returned when the script ran: st is the state after the loop
QuickDict(st, raw_lines, returncode) ==
  [remote_count |-> st.remote_count,
   local_count |-> st.local_count,
   quick_status |-> PostStatus(st, returncode),
   raw_output |-> raw_lines,
   error |-> PostError(st, returncode)]

\* the dict returned when subprocess.run raised
QuickFailed(e) ==
  [remote_count |-> None, local_count |-> None, quick_status |-> "error",
   raw_output |-> <<>>, error |-> Some("Failed to run chk_sync.sh: " \o e)]

QuickParsed(raw_lines, returncode) ==
  QuickDict(ScanLines(ScanStart, raw_lines), raw_lines, returncode)

QuickAfterPaths(paths, proc) ==
  IF paths.exc # None THEN [exc |-> paths.exc, value |-> None]
  ELSE IF proc.exc # None
    THEN [exc |-> None, value |-> Some(QuickFailed(proc.exc[1]))]
  ELSE [exc |-> None,
        value |-> Some(QuickParsed(CombinedLines(proc.stdout, proc.stderr),
                                   proc.returncode))]

\* [exc, value]: the dict returned, or the exception of _get_paths
run_quick_check(c, proc) == QuickAfterPaths(_get_paths(c), proc)

(***************************************************************************)
(* Log helpers: _tail_lines, _last_matching_timestamp, parse_log           *)
(***************************************************************************)
\* the lines kept by _tail_lines (max_lines of parse_log)
TailMax == 60

\* length of the timestamp prefix, last_line[:19]
TsLen == 19

\* a byte that is not valid UTF-8 is written "~" in a file's raw lines
InvalidByte == "~"

RECURSIVE Decode(_)
\* open(..., encoding="utf-8", errors="ignore"): invalid bytes are dropped
Decode(raw) ==
  IF raw = "" THEN ""
  ELSE (IF CharAt(raw, 1) = InvalidByte THEN "" ELSE CharAt(raw, 1))
         \o Decode(SubSeq(raw, 2, Len(raw)))

DecodeLines(lines) == [i \in 1..Len(lines) |-> Decode(lines[i])]

RECURSIVE Join(_, _)
\* sep.join(lines)
Join(lines, sep) ==
  IF lines = <<>> THEN ""
  ELSE IF Len(lines) = 1 THEN lines[1]
  ELSE lines[1] \o sep \o Join(Tail(lines), sep)

AllDigits(s) == s # "" /\ \A i \in 1..Len(s) : CharAt(s, i) \in Digits

DaysIn(y, m) ==
  IF m \in {4, 6, 9, 11} THEN 30
  ELSE IF m # 2 THEN 31
  ELSE IF (y % 4 = 0 /\ y % 100 # 0) \/ y % 400 = 0 THEN 29
  ELSE 28

\* datetime.strptime(ts, "%Y-%m-%d %H:%M:%S") does not raise ValueError: the
\* whole of ts matches \d{4}-m-d\s+H:M:S, every numeric field one or two
\* digits wide (the day also a blank and a digit), and names a real date
ValidTimestamp(ts) ==
  \E wm \in 1..2, wd \in 1..2, wb \in 1..Len(ts), wH \in 1..2, wM \in 1..2, wS \in 1..2 :
    LET pm == 6
        pd == pm + wm + 1
        pb == pd + wd
        pH == pb + wb
        pM == pH + wH + 1
        pS == pM + wM + 1
        Y == SubSeq(ts, 1, 4)
        m == SubSeq(ts, pm, pm + wm - 1)
        dRaw == SubSeq(ts, pd, pd + wd - 1)
        d == IF wd = 2 /\ CharAt(dRaw, 1) = " " THEN CharAt(dRaw, 2) ELSE dRaw
        H == SubSeq(ts, pH, pH + wH - 1)
        M == SubSeq(ts, pM, pM + wM - 1)
        S == SubSeq(ts, pS, pS + wS - 1)
    IN /\ pS + wS - 1 = Len(ts)
       /\ AllDigits(Y) /\ Len(Y) = 4
       /\ CharAt(ts, 5) = "-" /\ CharAt(ts, pd - 1) = "-"
       /\ \A i \in pb..(pH - 1) : CharAt(ts, i) \in Whitespace
       /\ CharAt(ts, pM - 1) = ":" /\ CharAt(ts, pS - 1) = ":"
       /\ AllDigits(m) /\ AllDigits(d) /\ AllDigits(H) /\ AllDigits(M) /\ AllDigits(S)
       /\ DecimalValue(Y, 0) >= 1
       /\ DecimalValue(m, 0) \in 1..12
       /\ DecimalValue(d, 0) \in 1..DaysIn(DecimalValue(Y, 0), DecimalValue(m, 0))
       /\ DecimalValue(H, 0) \in 0..23
       /\ DecimalValue(M, 0) \in 0..59
       /\ DecimalValue(S, 0) \in 0..59

\* _tail_lines without the path.exists() guard: open() raises on a missing file
_tail_lines_NoExistsCheck(f, max_lines) ==
  IF f.state = "missing"
    THEN [exc |-> Some("[Errno 2] No such file or directory"), value |-> None]
  ELSE IF f.state = "error"
    THEN [exc |-> Some("[Errno 13] Permission denied"), value |-> None]
  ELSE LET lines == DecodeLines(f.lines)
           n == Len(lines)
           from == IF n > max_lines THEN n - max_lines + 1 ELSE 1
       IN [exc |-> None, value |-> Some(Join(SubSeq(lines, from, n), "\n"))]

\* _tail_lines keeping the first max_lines lines (a window that stops
\* sliding once it is full)
_tail_lines_KeepsHead(f, max_lines) ==
  IF f.state = "missing" THEN [exc |-> None, value |-> Some("")]
  ELSE IF f.state = "error"
    THEN [exc |-> Some("[Errno 13] Permission denied"), value |-> None]
  ELSE LET lines == DecodeLines(f.lines)
           n == Len(lines)
           to == IF n > max_lines THEN max_lines ELSE n
       IN [exc |-> None, value |-> Some(Join(SubSeq(lines, 1, to), "\n"))]

\* [exc, value]: the text of the last max_lines lines
_tail_lines(f, max_lines) ==
  IF f.state = "missing" THEN [exc |-> None, value |-> Some("")]
  ELSE IF f.state = "error"
    THEN [exc |-> Some("[Errno 13] Permission denied"), value |-> None]
  ELSE LET lines == DecodeLines(f.lines)
           n == Len(lines)
           from == IF n > max_lines THEN n - max_lines + 1 ELSE 1
       IN [exc |-> None, value |-> Some(Join(SubSeq(lines, from, n), "\n"))]

\* _last_matching_timestamp that keeps the last marker line whose prefix
\* parses, instead of the last marker line
_last_matching_timestamp_LastValid(f, needle) ==
  IF f.state = "missing" THEN [exc |-> None, value |-> None]
  ELSE IF f.state = "error"
    THEN [exc |-> Some("[Errno 13] Permission denied"), value |-> None]
  ELSE LET lines == DecodeLines(f.lines)
           prefix(i) == SubSeq(lines[i], 1,
                               IF Len(lines[i]) < TsLen THEN Len(lines[i]) ELSE TsLen)
           hits == {i \in 1..Len(lines) :
                      Contains(lines[i], needle) /\ ValidTimestamp(prefix(i))}
       IN IF hits = {} THEN [exc |-> None, value |-> None]
          ELSE [exc |-> None,
                value |-> Some(prefix(CHOOSE i \in hits : \A j \in hits : j <= i))]

\* [exc, value]: value is the timestamp as an optional string
_last_matching_timestamp(f, needle) ==
  IF f.state = "missing" THEN [exc |-> None, value |-> None]
  ELSE IF f.state = "error"
    THEN [exc |-> Some("[Errno 13] Permission denied"), value |-> None]
  ELSE LET lines == DecodeLines(f.lines)
           hits == {i \in 1..Len(lines) : Contains(lines[i], needle)}
       IN IF hits = {} THEN [exc |-> None, value |-> None]
          ELSE LET last_line == lines[CHOOSE i \in hits : \A j \in hits : j <= i]
                   ts_str == SubSeq(last_line, 1,
                                    IF Len(last_line) < TsLen THEN Len(last_line)
                                    ELSE TsLen)
               IN [exc |-> None,
                   value |-> IF ValidTimestamp(ts_str) THEN Some(ts_str) ELSE None]

\* [exc, value]
parse_log(f) ==
  LET last_restart ==
        _last_matching_timestamp(f, "Service picframe.service restarted successfully")
      last_download ==
        _last_matching_timestamp(f, "rclone sync completed successfully")
      log_tail == _tail_lines(f, TailMax)
  IN IF last_restart.exc # None THEN [exc |-> last_restart.exc, value |-> None]
     ELSE IF last_download.exc # None THEN [exc |-> last_download.exc, value |-> None]
     ELSE IF log_tail.exc # None THEN [exc |-> log_tail.exc, value |-> None]
     ELSE [exc |-> None,
           value |-> Some([last_service_restart |-> OrElse(last_restart.value, "--"),
                           last_file_download |-> OrElse(last_download.value, "--"),
                           log_tail |-> log_tail.value[1]])]

(***************************************************************************)
(* Service and current-remote helpers.  A process outcome is               *)
(* [exc, stdout, stderr, returncode]: exc is TRUE when subprocess.run      *)
(* raised (missing binary, timeout, any other exception).                  *)
(***************************************************************************)
\* IsActiveStatus without the final default, or "unknown"
IsActiveStatus_NoDefault(out) ==
  LET status == IF Strip(out.stdout) # "" THEN Strip(out.stdout)
                ELSE Strip(out.stderr)
  IN IF Contains(Lower(status), "failed to connect") THEN "unknown" ELSE status

\* out.stdout.strip() or out.stderr.strip() or "unknown", then the
\* "failed to connect" rule
IsActiveStatus(out) ==
  LET status == IF Strip(out.stdout) # "" THEN Strip(out.stdout)
                ELSE IF Strip(out.stderr) # "" THEN Strip(out.stderr)
                ELSE "unknown"
  IN IF Contains(Lower(status), "failed to connect") THEN "unknown" ELSE status

\* _systemctl_status whose user branch gives up when the system query raised
_systemctl_status_WebFirst(s, user) ==
  IF ~user THEN (IF s.web.exc THEN "unknown" ELSE IsActiveStatus(s.web))
  ELSE IF s.web.exc \/ s.linger.exc THEN "unknown"
  ELSE IF s.user.exc THEN "unknown"
  ELSE LET status == IsActiveStatus(s.user)
       IN IF status = "unknown" /\ ~s.pgrep.exc /\ s.pgrep.returncode = 0
             /\ (s.pgrep.stdout # "" \/ s.pgrep.stderr # "")
          THEN "active" ELSE status

\* _systemctl_status(service, user): s holds the outcomes of
\* systemctl is-active (web), loginctl enable-linger (linger),
\* systemctl --user is-active (user) and pgrep (pgrep)
_systemctl_status(s, user) ==
  IF ~user THEN (IF s.web.exc THEN "unknown" ELSE IsActiveStatus(s.web))
  ELSE IF s.linger.exc THEN "unknown"
  ELSE IF s.user.exc THEN "unknown"
  ELSE LET status == IsActiveStatus(s.user)
       IN IF status = "unknown" /\ ~s.pgrep.exc /\ s.pgrep.returncode = 0
             /\ (s.pgrep.stdout # "" \/ s.pgrep.stderr # "")
          THEN "active" ELSE status

\* logind's linger flag after _systemctl_status(service, user): the user
\* branch runs "loginctl enable-linger pi", which sets the flag when it
\* runs and exits 0
LingerAfter(s, user, l) ==
  IF user /\ ~s.linger.exc /\ s.linger.returncode = 0 THEN TRUE ELSE l

\* val.strip().strip('"').strip("'")
Unquote(val) == StripChars(StripChars(Strip(val), {"\""}), {"'"})

\* one iteration of the loop of _current_remote_from_conf over the file;
\* st.failed is set where the tuple unpacking of split("=", 1) raises
ConfLine(st, raw) ==
  LET line == Strip(raw)
      parts == Split1(line, "=")
  IN IF st.failed \/ line = "" \/ StartsWith(line, "#") THEN st
     ELSE IF StartsWith(line, "ACTIVE_SOURCE")
       THEN (IF Len(parts) < 2 THEN [st EXCEPT !.failed = TRUE]
             ELSE [st EXCEPT !.active_source = Some(Unquote(parts[2]))])
     ELSE IF StartsWith(line, "SOURCE_") /\ Contains(line, "_LABEL")
       THEN (IF Len(parts) < 2 THEN [st EXCEPT !.failed = TRUE]
             ELSE [st EXCEPT !.labels =
                     [k \in DOMAIN st.labels \cup {Strip(parts[1])} |->
                        IF k = Strip(parts[1]) THEN Unquote(parts[2])
                        ELSE st.labels[k]]])
     ELSE st

RECURSIVE ConfLines(_, _)
ConfLines(st, lines) ==
  IF lines = <<>> THEN st ELSE ConfLines(ConfLine(st, Head(lines)), Tail(lines))

_current_remote_from_conf(f) ==
  IF f.state = "missing" THEN "--"
  ELSE IF f.state = "error" THEN "--"
  ELSE LET st == ConfLines([active_source |-> None, labels |-> <<>>,
                            failed |-> FALSE], DecodeLines(f.lines))
           label_key == "SOURCE_" \o st.active_source[1] \o "_LABEL"
       IN IF st.failed THEN "--"
          ELSE IF st.active_source = None \/ st.active_source = Some("") THEN "--"
          ELSE IF label_key \in DOMAIN st.labels THEN st.labels[label_key]
          ELSE st.active_source[1]

\* the text after " - " (split(" - ", 1)[1]), or the whole when there is none
AfterDash(after) ==
  LET at == {i \in 1..(Len(after) - 2) : SubSeq(after, i, i + 2) = " - "}
  IN IF at = {} THEN after
     ELSE Strip(SubSeq(after, (CHOOSE i \in at : \A j \in at : i <= j) + 3,
                       Len(after)))

RECURSIVE _current_remote_from_quick(_)
_current_remote_from_quick(raw_lines) ==
  IF raw_lines = <<>> THEN "--"
  ELSE LET stripped == Strip(Head(raw_lines))
       IN IF StartsWith(Lower(stripped), "active source:")
          THEN LET label == AfterDash(Strip(Split1(stripped, ":")[2]))
               IN IF label = "" THEN "--" ELSE label
          ELSE _current_remote_from_quick(Tail(raw_lines))

\* one iteration of the loop of _parse_source_details_from_quick
SourceDetailLine(res, line) ==
  LET stripped == Strip(line)
      lower == Lower(stripped)
      parts == Split1(stripped, ":")
      after == IF Len(parts) = 2 THEN Strip(parts[2]) ELSE ""
  IN IF StartsWith(lower, "active source:")
       THEN [res EXCEPT !.source_name = after]
     ELSE IF Contains(lower, "remote") /\ Contains(stripped, ":")
             /\ ~Contains(lower, "active source")
       THEN (IF after # "" /\ Contains(after, ":")
             THEN [res EXCEPT !.remote_path = after] ELSE res)
     ELSE IF Contains(lower, "local") /\ Contains(lower, "dir")
             /\ Contains(stripped, ":")
       THEN (IF after # "" /\ StartsWith(after, "/")
             THEN [res EXCEPT !.local_path = after] ELSE res)
     ELSE res

NoSourceDetails ==
  [source_name |-> "--", remote_path |-> "--", local_path |-> "--"]

RECURSIVE SourceDetailLines(_, _)
SourceDetailLines(res, lines) ==
  IF lines = <<>> THEN res
  ELSE SourceDetailLines(SourceDetailLine(res, Head(lines)), Tail(lines))

_parse_source_details_from_quick(raw_lines) ==
  SourceDetailLines(NoSourceDetails, raw_lines)

(***************************************************************************)
(* get_status_payload                                                      *)
(***************************************************************************)
\* datetime.now().strftime(...): the clock is not modelled
NowStr == "2025-11-29 08:00:05"

SeverityOf(quick_status) ==
  IF quick_status = "match" THEN "OK"
  ELSE IF quick_status = "differ" THEN "WARN"
  ELSE IF quick_status = "error" THEN "ERROR"
  ELSE "UNKNOWN"

StatusTextOf(quick_status) ==
  IF quick_status = "match" THEN "Last sync succeeded"
  ELSE IF quick_status = "differ" THEN "Counts differ - check needed"  \* an en dash in the source
  ELSE IF quick_status = "error" THEN "Error running chk_sync.sh"
  ELSE "Status unknown"

\* the dict returned from the try block
NormalPayload(paths, q, li, web_status, pf_status, current_remote, debug) ==
  [now |-> NowStr,
   script_path |-> paths.chk_script,
   log_path |-> paths.log_file,
   overall |-> [remote_count |-> q.remote_count,
                local_count |-> q.local_count,
                severity |-> SeverityOf(q.quick_status),
                status_text |-> StatusTextOf(q.quick_status)],
   web_status |-> web_status,
   pf_status |-> pf_status,
   current_remote |-> IF current_remote = "" THEN "--" ELSE current_remote,
   source_details |-> _parse_source_details_from_quick(q.raw_output),
   activity |-> [last_service_restart |-> li.last_service_restart,
                 last_file_download |-> li.last_file_download,
                 log_tail |-> li.log_tail],
   debug |-> debug]

\* DegradedPayload that leaves the exception text out of debug
DegradedPayload_NoErrorText(paths, debug, e) ==
  [now |-> NowStr,
   script_path |-> paths.chk_script,
   log_path |-> paths.log_file,
   overall |-> [remote_count |-> None,
                local_count |-> None,
                severity |-> "ERROR",
                status_text |-> "Backend error"],
   web_status |-> "unknown",
   pf_status |-> "unknown",
   current_remote |-> "--",
   source_details |-> NoSourceDetails,
   activity |-> [last_service_restart |-> "--",
                 last_file_download |-> "--",
                 log_tail |-> ""],
   debug |-> debug]

\* the dict returned from the except block
DegradedPayload(paths, debug, e) ==
  [now |-> NowStr,
   script_path |-> paths.chk_script,
   log_path |-> paths.log_file,
   overall |-> [remote_count |-> None,
                local_count |-> None,
                severity |-> "ERROR",
                status_text |-> "Backend error"],
   web_status |-> "unknown",
   pf_status |-> "unknown",
   current_remote |-> "--",
   source_details |-> NoSourceDetails,
   activity |-> [last_service_restart |-> "--",
                 last_file_download |-> "--",
                 log_tail |-> ""],
   debug |-> debug @@ [top_level_error |-> e]]

DebugOf(q) == [quick_error |-> q.error, quick_raw_output |-> q.raw_output]

\* the config file first, the quick-check output when it gives no label
CurrentRemote(conf_remote, raw_lines) ==
  IF conf_remote = "" \/ conf_remote = "--"
  THEN _current_remote_from_quick(raw_lines) ELSE conf_remote

\* the body of get_status_payload after its calls: paths, qr and lr are what
\* _get_paths, run_quick_check and parse_log gave
Reconcile(paths, qr, lr, s, cf) ==
  IF paths.exc # None
    THEN [exc |-> paths.exc, value |-> None, quick |-> None, log_info |-> None]
  ELSE IF lr.exc # None
    THEN [exc |-> None,
          value |-> Some(DegradedPayload(paths.value[1], DebugOf(qr.value[1]),
                                         lr.exc[1])),
          quick |-> qr.value, log_info |-> None]
  ELSE [exc |-> None,
        value |-> Some(NormalPayload(paths.value[1], qr.value[1], lr.value[1],
                                     _systemctl_status(s, FALSE),
                                     _systemctl_status(s, TRUE),
                                     CurrentRemote(_current_remote_from_conf(cf),
                                                   qr.value[1].raw_output),
                                     DebugOf(qr.value[1]))),
        quick |-> qr.value, log_info |-> lr.value]

\* [exc, value, quick, log_info]: the payload, or the exception that escapes;
\* quick and log_info are the locals of the same names (None when not set)
get_status_payload(c, proc, f, s, cf) ==
  Reconcile(_get_paths(c), run_quick_check(c, proc), parse_log(f), s, cf)

(***************************************************************************)
(* Action runners.  The script's outcome is proc = [exc, stdout, stderr,   *)
(* returncode]; exc is None when subprocess.run returned, "timeout" when   *)
(* it raised TimeoutExpired, and the text of any other exception.          *)
(***************************************************************************)
Runners ==
  {"run_chk_sync_detailed", "run_restart_pf_service", "run_restart_web_service",
   "run_sync_now", "apply_github_update"}

\* the timeout= of each runner's subprocess.run, in seconds
RunnerTimeout ==
  [run_chk_sync_detailed |-> 600, run_restart_pf_service |-> 60,
   run_restart_web_service |-> 60, run_sync_now |-> 300,
   apply_github_update |-> 600]

\* the text each runner puts before the exception
RunnerErrorPrefix ==
  [run_chk_sync_detailed |-> "Error running chk_sync.sh --d: ",
   run_restart_pf_service |-> "Error running svc_ctl.sh: ",
   run_restart_web_service |-> "Error running svc_ctl.sh: ",
   run_sync_now |-> "Error running sync script: ",
   apply_github_update |-> "ERROR: Failed to run update script: "]

\* the script each runner launches, under app_root (chk_sync.sh is
\* paths["chk_script"])
RunnerScript ==
  [run_chk_sync_detailed |-> "/ops_tools/chk_sync.sh",
   run_restart_pf_service |-> "/app_control/svc_ctl.sh",
   run_restart_web_service |-> "/app_control/svc_ctl.sh",
   run_sync_now |-> "/ops_tools/frame_sync.sh",
   apply_github_update |-> "/ops_tools/update_app.sh"]

\* str(e) of the exception subprocess.run raised
ExceptionText(exc, seconds) ==
  IF exc = "timeout"
  THEN "Command timed out after " \o ToString(seconds) \o " seconds"
  ELSE exc

\* output: stdout, then "\n" and stderr when both are non-empty
CombinedOutput(proc) ==
  proc.stdout \o (IF proc.stdout # "" /\ proc.stderr # "" THEN "\n" ELSE "")
    \o proc.stderr

\* the try block shared by the runners, and its except Exception branch
RunScript(name, proc) ==
  IF proc.exc # None
  THEN [ok |-> FALSE,
        output |-> RunnerErrorPrefix[name]
                     \o ExceptionText(proc.exc[1], RunnerTimeout[name])]
  ELSE [ok |-> proc.returncode = 0, output |-> CombinedOutput(proc)]

\* apply_github_update after _get_paths: the two checks on the script, its
\* own message for a timeout, and the default for an empty output
UpdateScript(paths, t) ==
  IF t.state = "missing"
    THEN [ok |-> FALSE,
          output |-> "ERROR: Update script not found: "
                       \o paths.app_root \o RunnerScript["apply_github_update"]]
  ELSE IF t.state = "not_executable"
    THEN [ok |-> FALSE,
          output |-> "ERROR: Update script not executable: "
                       \o paths.app_root \o RunnerScript["apply_github_update"]]
  ELSE IF t.proc.exc = Some("timeout")
    THEN [ok |-> FALSE,
          output |-> "ERROR: Update timed out after 10 minutes. This may indicate a problem.\nCheck logs at: $HOME/logs/frame_sync.log"]
  ELSE IF t.proc.exc # None THEN RunScript("apply_github_update", t.proc)
  ELSE [ok |-> t.proc.returncode = 0,
        output |-> IF CombinedOutput(t.proc) = "" THEN "Update script completed"
                   ELSE CombinedOutput(t.proc)]

\* a runner after _get_paths, which it calls before its try
RunnerAfterPaths(name, paths, t) ==
  IF paths.exc # None THEN [exc |-> paths.exc, value |-> None]
  ELSE IF name = "apply_github_update"
    THEN [exc |-> None, value |-> Some(UpdateScript(paths.value[1], t))]
  ELSE [exc |-> None, value |-> Some(RunScript(name, t.proc))]

\* [exc, value]: run_chk_sync_detailed, run_restart_pf_service,
\* run_restart_web_service, run_sync_now or apply_github_update
Runner(name, c, t) == RunnerAfterPaths(name, _get_paths(c), t)

(***************************************************************************)
(* The source registry (frame_sources.conf read as id|label|path|enabled   *)
(* [|remote] lines) and the frame_live symlink.  A file is its lines, as   *)
(* read_text().splitlines() gives them, and whether its last line ends     *)
(* with a newline.  fault names the file-system call that fails, if any.   *)
(***************************************************************************)
RECURSIVE SplitOn(_, _)
\* s.split(sep) for a one-character sep
SplitOn(s, sep) ==
  LET parts == Split1(s, sep)
  IN IF Len(parts) = 1 THEN parts ELSE <<parts[1]>> \o SplitOn(parts[2], sep)

\* text.splitlines(), for text whose line breaks are "\n"
SplitLines(text) ==
  LET parts == SplitOn(text, "\n")
  IN IF parts[Len(parts)] = "" THEN SubSeq(parts, 1, Len(parts) - 1) ELSE parts

\* the lines of a file after text is written at its end
AppendText(lines, ended, text) ==
  IF ended \/ lines = <<>> THEN lines \o SplitLines(text)
  ELSE SubSeq(lines, 1, Len(lines) - 1) \o SplitLines(lines[Len(lines)] \o text)

\* one line of the registry as get_sources_from_conf reads it: None for a
\* blank line, a comment and a line with fewer than four fields
SourceOf(raw, current_target) ==
  LET line == Strip(raw)
      parts == SplitOn(line, "|")
  IN IF line = "" \/ StartsWith(line, "#") \/ Len(parts) < 4 THEN None
     ELSE Some([id |-> parts[1], label |-> parts[2], path |-> parts[3],
                enabled |-> parts[4] = "1",
                active |-> current_target = Some(parts[3]),
                remote |-> IF Len(parts) > 4 THEN parts[5] ELSE ""])

RECURSIVE SourcesOf(_, _)
SourcesOf(lines, current_target) ==
  IF lines = <<>> THEN <<>>
  ELSE LET s == SourceOf(Head(lines), current_target)
       IN (IF s = None THEN <<>> ELSE s) \o SourcesOf(Tail(lines), current_target)

\* get_sources_from_conf after _get_paths: the empty list when the file is
\* missing or cannot be read; lv is where frame_live points (None: no link)
get_sources_from_conf(f, lv) ==
  IF f.state # "ok" THEN <<>> ELSE SourcesOf(f.lines, lv)

Letters == {CharAt(UpperChars, i) : i \in 1..26} \cup {CharAt(LowerChars, i) : i \in 1..26}

\* source_id.replace("_", "").replace("-", "").isalnum()
IdChars(s) ==
  /\ \E i \in 1..Len(s) : CharAt(s, i) \in Letters \cup Digits
  /\ \A i \in 1..Len(s) : CharAt(s, i) \in Letters \cup Digits \cup {"_", "-"}

\* a component of the remote's path that has leading or trailing spaces
SpacedComponents(rclone_remote) ==
  LET comps == SplitOn(Split1(rclone_remote, ":")[2], "/")
  IN {i \in 1..Len(comps) : comps[i] # "" /\ Strip(comps[i]) # comps[i]}

\* (is_valid, error_message) as [ok, error]; sources is what
\* get_sources_from_conf returned
validate_source_data(source_id, label, path, rclone_remote, sources) ==
  IF Strip(source_id) = ""
    THEN [ok |-> FALSE, error |-> Some("Source ID is required")]
  ELSE IF ~IdChars(source_id)
    THEN [ok |-> FALSE,
          error |-> Some("Source ID must contain only letters, numbers, hyphens, and underscores")]
  ELSE IF \E i \in 1..Len(sources) : sources[i].id = source_id
    THEN [ok |-> FALSE,
          error |-> Some("Source ID '" \o source_id \o "' already exists")]
  ELSE IF Strip(label) = ""
    THEN [ok |-> FALSE, error |-> Some("Label is required")]
  ELSE IF Strip(path) = ""
    THEN [ok |-> FALSE, error |-> Some("Local path is required")]
  ELSE IF ~StartsWith(path, "/")
    THEN [ok |-> FALSE, error |-> Some("Local path must be an absolute path")]
  ELSE IF Strip(rclone_remote) = ""
    THEN [ok |-> FALSE, error |-> Some("Rclone remote is required")]
  ELSE IF ~Contains(rclone_remote, ":")
    THEN [ok |-> FALSE,
          error |-> Some("Rclone remote must include ':' (e.g., remote:path)")]
  ELSE IF Strip(rclone_remote) # rclone_remote
    THEN [ok |-> FALSE,
          error |-> Some("Rclone remote path has leading or trailing spaces - please check the path")]
  ELSE IF SpacedComponents(rclone_remote) # {}
    THEN [ok |-> FALSE,
          error |-> Some("Directory has leading or trailing spaces - rename it in your cloud storage first")]
  ELSE [ok |-> TRUE, error |-> None]

\* the files and directories an operation leaves, with what it returned
Outcome(exc, value, f, e, b, d, lv) ==
  [exc |-> exc, value |-> value, conf |-> f, eol |-> e, bak |-> b, dirs |-> d,
   live |-> lv]

Failure(msg) == Some([ok |-> FALSE, error |-> Some(msg)])

Success == Some([ok |-> TRUE, error |-> None])

\* f"{source_id}|{label}|{path}|{enabled_str}|{rclone_remote}\n"
NewLine(a) ==
  a.source_id \o "|" \o a.label \o "|" \o a.path \o "|"
    \o (IF a.enabled THEN "1" ELSE "0") \o "|" \o a.rclone_remote \o "\n"

\* the directories after the create_directory step
DirsAfterCreate(a, d, fault) ==
  IF a.create_directory /\ a.path \notin d /\ fault # "mkdir" THEN d \cup {a.path}
  ELSE d

\* add_source_to_conf from the backup on: the try block
AddWrite(a, f, e, b, d, lv, fault) ==
  IF f.state = "error" \/ fault = "copy"
    THEN Outcome(None, Failure("Failed to write to config: copy"), f, e, b, d, lv)
  ELSE IF fault = "write"
    THEN Outcome(None, Failure("Failed to write to config: write"), f, e,
                 Some([lines |-> f.lines, eol |-> e]), d, lv)
  ELSE Outcome(None, Success,
               [f EXCEPT !.lines = AppendText(f.lines, e, NewLine(a))], TRUE,
               Some([lines |-> f.lines, eol |-> e]), d, lv)

\* add_source_to_conf after the create_directory step: validation, the
\* path lookup, the check that the registry exists, and the write
AddChecked(a, paths, f, e, b, d, lv, fault) ==
  IF IdChars(a.source_id) /\ paths.exc # None
    THEN Outcome(paths.exc, None, f, e, b, d, lv)
  ELSE IF ~validate_source_data(a.source_id, a.label, a.path, a.rclone_remote,
                                get_sources_from_conf(f, lv)).ok
    THEN Outcome(None,
                 Some(validate_source_data(a.source_id, a.label, a.path,
                                           a.rclone_remote,
                                           get_sources_from_conf(f, lv))),
                 f, e, b, d, lv)
  ELSE IF f.state = "missing"
    THEN Outcome(None, Failure("Config file not found"), f, e, b, d, lv)
  ELSE AddWrite(a, f, e, b, d, lv, fault)

\* add_source_to_conf(source_id, label, path, enabled, rclone_remote,
\* create_directory): the directory is created before anything is checked
add_source_to_conf(a, c, f, e, b, d, lv, fault) ==
  IF a.create_directory /\ a.path \notin d /\ fault = "mkdir"
    THEN Outcome(None, Failure("Failed to create directory: mkdir"), f, e, b, d, lv)
  ELSE AddChecked(a, _get_paths(c), f, e, b, DirsAfterCreate(a, d, fault), lv, fault)

\* the line is a source line whose id is source_id
DeletedLine(raw, source_id) ==
  LET stripped == Strip(raw)
      parts == SplitOn(stripped, "|")
  IN /\ stripped # "" /\ ~StartsWith(stripped, "#")
     /\ Len(parts) >= 4 /\ parts[1] = source_id

\* DeleteKept that keeps comments, blank lines and well-formed sources only
DeleteKept_DropsMalformed(lines, source_id) ==
  SelectSeq(lines, LAMBDA raw : \/ Strip(raw) = "" \/ StartsWith(Strip(raw), "#")
                                \/ /\ Len(SplitOn(Strip(raw), "|")) >= 4
                                   /\ ~DeletedLine(raw, source_id))

\* new_lines: every line but the source lines of source_id
DeleteKept(lines, source_id) ==
  SelectSeq(lines, LAMBDA raw : ~DeletedLine(raw, source_id))

\* delete_source_from_conf after the path lookup
DeleteAfterPaths(source_id, paths, f, e, b, d, lv, fault) ==
  IF paths.exc # None THEN Outcome(paths.exc, None, f, e, b, d, lv)
  ELSE IF f.state = "missing"
    THEN Outcome(None, Failure("Config file not found"), f, e, b, d, lv)
  ELSE IF f.state = "error" \/ fault = "read"
    THEN Outcome(None, Failure("Failed to delete source: read"), f, e, b, d, lv)
  ELSE IF \A i \in 1..Len(f.lines) : ~DeletedLine(f.lines[i], source_id)
    THEN Outcome(None, Failure("Source '" \o source_id \o "' not found"),
                 f, e, b, d, lv)
  ELSE IF fault = "copy"
    THEN Outcome(None, Failure("Failed to delete source: copy"), f, e, b, d, lv)
  ELSE IF fault = "write"
    THEN Outcome(None, Failure("Failed to delete source: write"), f, e,
                 Some([lines |-> f.lines, eol |-> e]), d, lv)
  ELSE Outcome(None, Success,
               [f EXCEPT !.lines = SplitLines(Join(DeleteKept(f.lines, source_id), "\n")
                                                \o "\n")],
               TRUE, Some([lines |-> f.lines, eol |-> e]), d, lv)

\* delete_source_from_conf(source_id)
delete_source_from_conf(source_id, c, f, e, b, d, lv, fault) ==
  IF Strip(source_id) = ""
    THEN Outcome(None, Failure("Source ID is required"), f, e, b, d, lv)
  ELSE DeleteAfterPaths(source_id, _get_paths(c), f, e, b, d, lv, fault)

\* Path.home() / "Pictures"
PicturesDir == "/home/pi/Pictures"

\* files that exist and are not directories
PlainFiles == {"/home/pi/Pictures/readme.txt"}

\* set_frame_live_target(target_dir) after the path lookup: the old link is
\* removed before the new one is made
SetLiveAfterPaths(target_dir, paths, f, e, b, d, lv, fault) ==
  IF paths.exc # None THEN Outcome(paths.exc, None, f, e, b, d, lv)
  ELSE IF target_dir \notin d \cup PlainFiles
    THEN Outcome(None, Failure("Target directory does not exist: " \o target_dir),
                 f, e, b, d, lv)
  ELSE IF target_dir \notin d
    THEN Outcome(None, Failure("Target is not a directory: " \o target_dir),
                 f, e, b, d, lv)
  ELSE IF ~(target_dir = PicturesDir \/ StartsWith(target_dir, PicturesDir \o "/"))
    THEN Outcome(None, Failure("Target must be under " \o PicturesDir), f, e, b, d, lv)
  ELSE IF lv # None /\ fault = "unlink"
    THEN Outcome(None, Failure("Failed to update symlink: unlink"), f, e, b, d, lv)
  ELSE IF fault = "symlink"
    THEN Outcome(None, Failure("Failed to update symlink: symlink"), f, e, b, d, None)
  ELSE Outcome(None, Success, f, e, b, d, Some(target_dir))

set_frame_live_target(target_dir, c, f, e, b, d, lv, fault) ==
  SetLiveAfterPaths(target_dir, _get_paths(c), f, e, b, d, lv, fault)

(***************************************************************************)
(* Inputs: what the collaborators can hand to one request.                 *)
(***************************************************************************)
\* sequences over S of length at most n
SeqsUpTo(S, n) == UNION {[1..k -> S] : k \in 0..n}

\* lines the quick-check script may print, for the parser
QuickLines ==
  {"Remote file count: 10",
   "Local  file count: 10",
   "Local  file count: 7",
   "Quick check: File counts match.",
   "Quick check: counts MISMATCH",
   "Quick check failed: rclone error",
   "Quick check started",
   "INFO no match needed"}

StderrLines == {"NOTICE: quick check: counts differ (no match)"}

\* outputs of the quick-check script, for the reconciler
StatusOutputs ==
  {<<>>,
   <<"Remote file count: 10", "Local  file count: 10",
     "Quick check: File counts match.">>,
   <<"Active source: kfr - Koofr (kfr_frame)", "  Remote    : kfrphotos:KFR_kframe",
     "  Local dir : /home/pi/Pictures/kfr_frame",
     "Remote file count: 10", "Local  file count: 7">>,
   <<"Active source:", "Remote file count: n/a",
     "Quick check: counts MISMATCH">>,
   <<"rclone: command not found">>}

RunFailed ==
  [exc |-> Some("[Errno 2] No such file or directory"),
   stdout |-> <<>>, stderr |-> <<>>, returncode |-> 0]

\* the script ran and printed one of stdouts, with or without a line of
\* errLines on stderr, or it could not be run
ChkOutcomes(stdouts, errLines) ==
  [exc : {None}, stdout : stdouts, stderr : SeqsUpTo(errLines, 1),
   returncode : {0, 1}] \cup {RunFailed}

MissingFile == [state |-> "missing", lines |-> <<>>]

UnreadableFile == [state |-> "error", lines |-> <<>>]

File(lines) == [state |-> "ok", lines |-> lines]

LogFiles ==
  {MissingFile, UnreadableFile,
   File(<<"2025-11-29 08:00:05 rclone sync completed successfully.",
          "2025-11-29 08:00:09 Service picframe.service restarted successfully">>),
   File(<<"2025-11-29 08:00:05 Service picframe.service restarted successfully",
          "~~ Service picframe.service restarted successfully (no time)",
          "2025-11-29 08:0~0:07 rclone sync completed successfully.">>)}

\* lines of the sync log, for the log reader: the two markers with a valid,
\* an impossible, a missing and an unpadded timestamp, an invalid byte before
\* the timestamp, a line without marker and an empty line
LogLines ==
  {"2025-11-29 08:00:05 rclone sync completed successfully.",
   "2025-11-29 08:00:09 Service picframe.service restarted successfully",
   "2025-02-30 08:00:09 Service picframe.service restarted successfully",
   "rclone sync completed successfully (no timestamp)",
   "2025-11-29   8:00:5 rclone sync completed successfully.",
   "~2025-11-29 08:00:07 Service picframe.service restarted successfully",
   "2025-11-29 08:00:06 INFO sync started",
   ""}

\* a log of n lines: a restart marker first, numbered entries after it
LongLog(n) ==
  File([i \in 1..n |->
          IF i = 1
          THEN "2025-11-29 08:00:09 Service picframe.service restarted successfully"
          ELSE "2025-11-29 08:00:10 entry " \o ToString(i)])

\* logs for the log reader: short ones line by line, and long ones around
\* the length the tail keeps
LogInputs ==
  {MissingFile, UnreadableFile}
    \cup {File(ls) : ls \in SeqsUpTo(LogLines, MaxLogLines)}
    \cup {LongLog(n) : n \in (TailMax - 1)..(TailMax + MaxExtra)}

Exited(stdout, stderr, returncode) ==
  [exc |-> FALSE, stdout |-> stdout, stderr |-> stderr, returncode |-> returncode]

Raised == [exc |-> TRUE, stdout |-> "", stderr |-> "", returncode |-> 0]

NoBus == Exited("", "Failed to connect to bus: No such file or directory\n", 1)

\* every probe answers
SvcUp ==
  [web |-> Exited("active\n", "", 0), linger |-> Exited("", "", 0),
   user |-> Exited("inactive\n", "", 3), pgrep |-> Exited("", "", 1)]

SvcOutcomes ==
  {SvcUp,
   [web |-> Raised, linger |-> Raised, user |-> Raised, pgrep |-> Raised],
   [web |-> Exited("", "", 1), linger |-> Exited("", "", 1),
    user |-> NoBus, pgrep |-> Exited("1234\n", "", 0)],
   [web |-> NoBus, linger |-> Exited("", "", 0),
    user |-> Exited("", "", 1), pgrep |-> Raised]}

\* outcomes of "systemctl is-active" in either scope: active, inactive
\* (exit 3), no bus, nothing printed, and the call raising
QueryOutcomes ==
  {Exited("active\n", "", 0), Exited("inactive\n", "", 3), NoBus,
   Exited("", "", 1), Raised}

\* outcomes of "loginctl enable-linger pi"
LingerOutcomes == {Exited("", "", 0), Exited("", "Access denied\n", 1), Raised}

\* outcomes of "pgrep -u pi -f picframe"
PgrepOutcomes == {Exited("1234\n", "", 0), Exited("", "", 1), Raised}

\* the service manager, every step over its outcomes
ProbeOutcomes ==
  [web : QueryOutcomes, linger : LingerOutcomes, user : QueryOutcomes,
   pgrep : PgrepOutcomes]

\* a script that ran: what it printed and its exit code
Ran(stdout, stderr, returncode) ==
  [exc |-> None, stdout |-> stdout, stderr |-> stderr, returncode |-> returncode]

\* subprocess.run raised: TimeoutExpired ("timeout") or another exception
Failed(exc) == [exc |-> Some(exc), stdout |-> "", stderr |-> "", returncode |-> 0]

\* outcomes of the script an action runner launches
ScriptOutcomes ==
  {Ran("done\n", "", 0), Ran("", "", 0), Ran("", "rclone: not found\n", 127),
   Ran("Remote file count: 10\n", "warning\n", 1), Ran("partial\n", "", 0 - 15),
   Failed("timeout"), Failed("[Errno 2] No such file or directory"),
   Failed("[Errno 13] Permission denied"), Failed("[Errno 8] Exec format error")}

\* the script as the runner finds it; launching a missing script raises
ToolOutcomes ==
  [state : {"ok"}, proc : ScriptOutcomes]
    \cup {[state |-> "missing", proc |-> Failed("[Errno 2] No such file or directory")],
          [state |-> "not_executable", proc |-> Failed("[Errno 13] Permission denied")]}

\* the caller asks for the user-scoped probe and for a manual sync, whose
\* script runs and succeeds
AskDefault == [user |-> TRUE, runner |-> "run_sync_now"]

ToolDefault == [state |-> "ok", proc |-> Ran("done\n", "", 0)]

ConfFiles ==
  {MissingFile, UnreadableFile,
   File(<<"# active source", "ACTIVE_SOURCE=\"kfr\"", "SOURCE_kfr_LABEL=\"Koofr\"">>),
   File(<<"ACTIVE_SOURCE=kfr", "SOURCE_kfr_LABEL=''">>),
   File(<<"SOURCE_kfr_LABEL=Koofr", "ACTIVE_SOURCE">>)}

(***************************************************************************)
(* External commands, one at a time.  A handler spawns its commands in     *)
(* order and waits for each: the command exits, cannot be started, or      *)
(* hangs, and subprocess.run ends the wait for a hung command only when    *)
(* the timeout it was given expires.                                       *)
(***************************************************************************)
Cmd(name, timeout) == [name |-> name, timeout |-> timeout]

\* subprocess.run called without timeout=: it waits without limit
NoTimeout == None

QuickCheckCmd == Cmd("chk_sync.sh", Some(120))

WebQueryCmd == Cmd("systemctl is-active pf-web-status.service", Some(10))

LingerCmd == Cmd("loginctl enable-linger pi", Some(5))

UserQueryCmd == Cmd("systemctl --user --machine=pi@ is-active picframe.service", Some(10))

PgrepCmd == Cmd("pgrep -u pi -f picframe", Some(5))

\* the commands of check_github_updates, in order
GitCmds ==
  <<Cmd("git log -1", Some(10)), Cmd("git describe --tags --exact-match HEAD", Some(10)),
    Cmd("git fetch --all", Some(30)), Cmd("git log -1 origin/main", Some(10)),
    Cmd("git describe --tags origin/main", Some(10)),
    Cmd("git rev-list --count HEAD..origin/main", Some(10))>>

\* the handlers of status_backend.py that spawn commands
BackendHandlers == {"get_status_payload", "check_github_updates"} \cup Runners

\* the handlers of app.py that spawn commands: /api/status and /api/run-check
AppHandlers == {"api_status", "api_run_check"}

Handlers == BackendHandlers \cup AppHandlers

\* the commands of a handler of status_backend.py, in the order of its calls
BackendCommands(h) ==
  IF h = "get_status_payload"
    THEN <<QuickCheckCmd, WebQueryCmd, LingerCmd, UserQueryCmd, PgrepCmd>>
  ELSE IF h = "check_github_updates" THEN GitCmds
  ELSE <<Cmd(RunnerScript[h], Some(RunnerTimeout[h]))>>

\* the commands of a handler of app.py: get_web_service_status and
\* get_picframe_service_status for /api/status, the deep check for
\* /api/run-check
AppCommands(h) ==
  IF h = "api_status"
    THEN <<Cmd("systemctl is-active pf-web-status.service", NoTimeout),
           Cmd("systemctl --user is-active picframe.service", NoTimeout)>>
  ELSE <<Cmd("chk_sync.sh --d", NoTimeout)>>

\* every command the handler can spawn
Commands(h) == IF h \in AppHandlers THEN AppCommands(h) ELSE BackendCommands(h)

\* the commands ahead of a handler when it starts: all of them, none when a
\* step before the first one ends the handler (the path lookup raises, the
\* script or the repository is missing), and the quick check alone when the
\* log reader raises after it
Programs(h) ==
  {Commands(h)}
    \cup (IF h = "api_status" THEN {} ELSE {<<>>})
    \cup (IF h = "get_status_payload" THEN {<<QuickCheckCmd>>} ELSE {})

\* how a spawned command behaves: it exits with output, exits nonzero with
\* nothing printed, cannot be started, or never exits
Behaviours == {"exits", "exits_empty", "cannot_start", "hangs"}

\* the commands still ahead after command c ended; threw tells that
\* subprocess.run raised (the command could not start, or timed out)
Rest(h, c, behaviour, threw, todo) ==
  IF h = "get_status_payload"
    THEN IF c \in {LingerCmd, UserQueryCmd} /\ threw THEN <<>>
         ELSE IF c = UserQueryCmd /\ behaviour = "exits" THEN <<>>
         ELSE todo
  ELSE IF h = "check_github_updates"
    THEN IF threw \/ (c = GitCmds[3] /\ behaviour = "exits_empty") THEN <<>>
         ELSE todo
  ELSE todo

NoRequest ==
  [handler |-> "none", todo |-> <<>>, running |-> None, spawned |-> <<>>,
   failed |-> {}]

NoResponse == [handler |-> "none", failed |-> {}]

(***************************************************************************)
(* The locals of one get_status_payload execution.  Each call has its own  *)
(* frame; a local not yet assigned holds None.  overlapped records that a   *)
(* statement of the execution ran while another execution was in progress. *)
(***************************************************************************)
Requests == 1..MaxRequests

NewFrame ==
  [pc |-> "idle", debug |-> <<>>, paths |-> None, quick |-> None,
   log_info |-> None, web_status |-> None, pf_status |-> None,
   ret |-> None, exc |-> None, overlapped |-> FALSE]

NoFrames == [r \in Requests |-> NewFrame]

\* lines of the quick-check script, for the count and verdict parsers: a
\* verdict line with "failed" and "match", a plain verdict, and count lines
\* with a value, a non-numeric value, no colon and no value
ParseLines ==
  {"Quick check failed: cannot match counts",
   "Quick check: File counts match.",
   "Remote file count: 10",
   "Remote file count: n/a",
   "Remote file count",
   "Local  file count:",
   "Local  file count: 7"}

\* the directories of an installation with one source
PictureDirs == {PicturesDir, "/home/pi/Pictures/kfr_frame", "/home/pi/other"}

\* a newline-terminated registry, no backup, no frame_live link
DiskAtRest == eol = TRUE /\ bak = None /\ dirs = PictureDirs /\ live = None

NoCall == [source_id |-> ""]

\* an add_source_to_conf execution: where it is, its arguments, what it
\* returned
NewAdd == [pc |-> "idle", call |-> NoCall, ret |-> None]

NoAdds == [r \in Requests |-> NewAdd]

Idle ==
  /\ op = "none" /\ quick = None /\ log_info = None
  /\ payload = None /\ raised = None /\ probe = None /\ result = None
  /\ req = NoRequest /\ resp = NoResponse /\ frames = NoFrames
  /\ call = NoCall /\ adds = NoAdds

\* the reconciler's collaborators, each over its outcomes
Init ==
  /\ cfg \in {"absent", "present", "error"}
  /\ chk \in ChkOutcomes(StatusOutputs, {})
  /\ log \in LogFiles
  /\ svc \in SvcOutcomes
  /\ conf \in ConfFiles
  /\ linger = FALSE
  /\ arg = AskDefault /\ tool = ToolDefault
  /\ DiskAtRest
  /\ Idle

\* the quick-check parser's inputs, the other collaborators at rest
InitQuick ==
  /\ cfg = "absent"
  /\ chk \in ChkOutcomes(SeqsUpTo(QuickLines, MaxLines), StderrLines)
  /\ log \in {MissingFile, UnreadableFile}
  /\ svc = SvcUp
  /\ conf = MissingFile
  /\ linger = TRUE
  /\ arg = AskDefault /\ tool = ToolDefault
  /\ DiskAtRest
  /\ Idle

\* the log reader's inputs, the other collaborators at rest
InitLog ==
  /\ cfg = "absent"
  /\ chk = [exc |-> None, stdout |-> <<"Remote file count: 10", "Local  file count: 10">>,
            stderr |-> <<>>, returncode |-> 0]
  /\ log \in LogInputs
  /\ svc = SvcUp
  /\ conf = MissingFile
  /\ linger = TRUE
  /\ arg = AskDefault /\ tool = ToolDefault
  /\ DiskAtRest
  /\ Idle

\* the service prober's inputs: every step of both probes over its
\* outcomes, linger enabled or not before the request
InitSvc ==
  /\ cfg = "absent"
  /\ chk = [exc |-> None, stdout |-> <<"Remote file count: 10", "Local  file count: 10">>,
            stderr |-> <<>>, returncode |-> 0]
  /\ log \in {MissingFile, UnreadableFile}
  /\ svc \in ProbeOutcomes
  /\ conf = MissingFile
  /\ linger \in BOOLEAN
  /\ arg \in [user : BOOLEAN, runner : {"run_restart_pf_service"}]
  /\ tool = ToolDefault
  /\ DiskAtRest
  /\ Idle

\* the action runners' inputs: each runner over the outcomes of its script
\* and of the path lookup
InitAct ==
  /\ cfg \in {"absent", "present", "error"}
  /\ chk = RunFailed
  /\ log = MissingFile
  /\ svc = SvcUp
  /\ conf = MissingFile
  /\ linger = TRUE
  /\ arg \in [user : {TRUE}, runner : Runners]
  /\ tool \in ToolOutcomes
  /\ DiskAtRest
  /\ Idle

\* the count and verdict parsers' inputs, the other collaborators at rest
InitParse ==
  /\ cfg = "absent"
  /\ chk \in ChkOutcomes(SeqsUpTo(ParseLines, MaxLines), {})
  /\ log = MissingFile
  /\ svc = SvcUp
  /\ conf = MissingFile
  /\ linger = TRUE
  /\ arg = AskDefault /\ tool = ToolDefault
  /\ DiskAtRest
  /\ Idle

(***************************************************************************)
(* Operations.  A request runs one operation on the collaborators as they  *)
(* are; its result is held until the next request.                         *)
(***************************************************************************)
RunQuickCheck ==
  /\ op = "none"
  /\ op' = "run_quick_check"
  /\ \E r \in {run_quick_check(cfg, chk)} : quick' = r.value /\ raised' = r.exc
  /\ log_info' = None
  /\ payload' = None
  /\ probe' = None /\ result' = None
  /\ UNCHANGED <<env, linger, steps, registry>>

ParseLog ==
  /\ op = "none"
  /\ op' = "parse_log"
  /\ \E r \in {parse_log(log)} : log_info' = r.value /\ raised' = r.exc
  /\ quick' = None
  /\ payload' = None
  /\ probe' = None /\ result' = None
  /\ UNCHANGED <<env, linger, steps, registry>>

\* _systemctl_status(WEB_SERVICE_NAME, user=False) or
\* _systemctl_status(PF_SERVICE_NAME, user=True), called directly
SystemctlStatus ==
  /\ op = "none"
  /\ op' = "_systemctl_status"
  /\ probe' = Some([user |-> arg.user, value |-> _systemctl_status(svc, arg.user)])
  /\ linger' = LingerAfter(svc, arg.user, linger)
  /\ quick' = None /\ log_info' = None /\ payload' = None /\ raised' = None
  /\ result' = None
  /\ UNCHANGED <<env, steps, registry>>

\* the runner the caller asks for
RunAction ==
  /\ op = "none"
  /\ op' = arg.runner
  /\ \E r \in {Runner(arg.runner, cfg, tool)} : result' = r.value /\ raised' = r.exc
  /\ quick' = None /\ log_info' = None /\ payload' = None /\ probe' = None
  /\ UNCHANGED <<env, linger, steps, registry>>

\* what the handler returned, or the exception that escaped it
Returned(r) ==
  /\ payload' = r.value
  /\ raised' = r.exc
  /\ quick' = r.quick
  /\ log_info' = r.log_info

\* ProbesRun with the probes called before the log is read
ProbesRun_BeforeLog(c, f) == _get_paths(c).exc = None

\* the probes are reached when neither the path lookup nor the log reader
\* raised before them
ProbesRun(c, f) == _get_paths(c).exc = None /\ parse_log(f).exc = None

GetStatusPayload ==
  /\ op = "none"
  /\ op' = "get_status_payload"
  /\ \E r \in {get_status_payload(cfg, chk, log, svc, conf)} : Returned(r)
  /\ linger' = LingerAfter(svc, ProbesRun(cfg, log), linger)
  /\ probe' = None /\ result' = None
  /\ UNCHANGED <<env, steps, registry>>

\* the caller has its answer; the next request starts afresh
NextRequest ==
  /\ op # "none"
  /\ op' = "none"
  /\ quick' = None /\ log_info' = None /\ payload' = None /\ raised' = None
  /\ probe' = None /\ result' = None
  /\ UNCHANGED <<env, linger, steps, registry>>

Next ==
  \/ RunQuickCheck
  \/ ParseLog
  \/ SystemctlStatus
  \/ GetStatusPayload
  \/ RunAction
  \/ NextRequest

Spec == Init /\ [][Next]_vars

SpecQuick == InitQuick /\ [][Next]_vars

SpecLog == InitLog /\ [][Next]_vars

SpecSvc == InitSvc /\ [][Next]_vars

SpecAct == InitAct /\ [][Next]_vars

SpecParse == InitParse /\ [][Next]_vars

(***************************************************************************)
(* A request served command by command.                                    *)
(***************************************************************************)
\* what the request-at-once operations hold
held == <<op, quick, log_info, payload, raised, probe, result>>

\* the collaborators at rest; the handlers and their commands vary
InitCmd ==
  /\ cfg = "absent"
  /\ chk = RunFailed
  /\ log = MissingFile
  /\ svc = SvcUp
  /\ conf = MissingFile
  /\ linger = TRUE
  /\ arg = AskDefault /\ tool = ToolDefault
  /\ DiskAtRest
  /\ Idle

\* a request arrives at one of the handlers
Receive ==
  /\ req.handler = "none"
  /\ \E h \in Handlers : \E p \in Programs(h) :
       req' = [handler |-> h, todo |-> p, running |-> None, spawned |-> <<>>,
               failed |-> {}]
  /\ resp' = NoResponse
  /\ UNCHANGED <<env, linger, held, frames, registry>>

\* subprocess.run starts the next command and waits for it
Spawn ==
  /\ req.handler # "none" /\ req.running = None /\ req.todo # <<>>
  /\ \E b \in Behaviours \ {"cannot_start"} :
       req' = [req EXCEPT !.running = Some([cmd |-> Head(req.todo), behaviour |-> b]),
                          !.todo = Tail(req.todo),
                          !.spawned = Append(@, Head(req.todo).name)]
  /\ UNCHANGED <<env, linger, held, resp, frames, registry>>

\* subprocess.run raises at once: the command cannot be started
CannotStart ==
  /\ req.handler # "none" /\ req.running = None /\ req.todo # <<>>
  /\ req' = [req EXCEPT !.todo = Rest(req.handler, Head(req.todo), "cannot_start",
                                      TRUE, Tail(req.todo)),
                        !.failed = @ \cup {Head(req.todo).name}]
  /\ UNCHANGED <<env, linger, held, resp, frames, registry>>

\* the command exits and subprocess.run returns
CommandExits ==
  /\ req.running # None
  /\ req.running[1].behaviour \in {"exits", "exits_empty"}
  /\ req' = [req EXCEPT !.running = None,
                        !.todo = Rest(req.handler, req.running[1].cmd,
                                      req.running[1].behaviour, FALSE, @)]
  /\ UNCHANGED <<env, linger, held, resp, frames, registry>>

\* the timeout of a command that has not exited expires: subprocess.run
\* kills it and raises TimeoutExpired
TimeoutExpires ==
  /\ req.running # None
  /\ req.running[1].behaviour = "hangs"
  /\ req.running[1].cmd.timeout # NoTimeout
  /\ req' = [req EXCEPT !.running = None,
                        !.todo = Rest(req.handler, req.running[1].cmd, "hangs",
                                      TRUE, @),
                        !.failed = @ \cup {req.running[1].cmd.name}]
  /\ UNCHANGED <<env, linger, held, resp, frames, registry>>

\* the handler returns: every call that raised shows in its answer
Respond ==
  /\ req.handler # "none" /\ req.running = None /\ req.todo = <<>>
  /\ resp' = [handler |-> req.handler, failed |-> req.failed]
  /\ req' = NoRequest
  /\ UNCHANGED <<env, linger, held, frames, registry>>

NextCmd ==
  \/ Receive
  \/ Spawn
  \/ CannotStart
  \/ CommandExits
  \/ TimeoutExpires
  \/ Respond

\* the interpreter keeps running a handler, a command that exits is reaped
\* and a timer that is set fires
SpecCmd == InitCmd /\ [][NextCmd]_vars /\ WF_vars(NextCmd)

(***************************************************************************)
(* get_status_payload statement by statement, several executions at once.  *)
(***************************************************************************)
\* the collaborators give every execution the same outputs
InitPar ==
  /\ cfg \in {"absent", "error"}
  /\ chk \in {RunFailed,
              [exc |-> None,
               stdout |-> <<"Active source: kfr - Koofr (kfr_frame)",
                            "Remote file count: 10", "Local  file count: 7">>,
               stderr |-> <<>>, returncode |-> 0]}
  /\ log \in {MissingFile, UnreadableFile,
              File(<<"2025-11-29 08:00:05 rclone sync completed successfully.">>)}
  /\ svc \in {SvcUp,
              [web |-> Exited("", "", 1), linger |-> Exited("", "", 0),
               user |-> NoBus, pgrep |-> Exited("1234\n", "", 0)]}
  /\ conf = File(<<"ACTIVE_SOURCE=kfr", "SOURCE_kfr_LABEL=Koofr">>)
  /\ linger = FALSE
  /\ arg = AskDefault /\ tool = ToolDefault
  /\ DiskAtRest
  /\ Idle

\* Store that keeps the locals in one place for all executions
Store_Shared(fs, r, f) ==
  [q \in Requests |-> [f EXCEPT !.pc = IF q = r THEN f.pc ELSE fs[q].pc,
                                !.ret = IF q = r THEN f.ret ELSE fs[q].ret,
                                !.exc = IF q = r THEN f.exc ELSE fs[q].exc]]

\* an assignment to locals of execution r: its own frame changes
Store(fs, r, f) == [fs EXCEPT ![r] = f]

\* the frame after a statement of execution r, with what it ran among
Among(fs, r, f) ==
  [f EXCEPT !.overlapped =
     @ \/ \E q \in Requests \ {r} : fs[q].pc \in {"quick", "log", "web", "pf", "remote"}]

\* debug = {}; paths = _get_paths(), which raises out of the handler
Enter(r) ==
  /\ frames[r].pc = "idle"
  /\ \E p \in {_get_paths(cfg)} :
       frames' = Store(frames, r, Among(frames, r,
                   IF p.exc # None
                   THEN [frames[r] EXCEPT !.pc = "raised", !.debug = <<>>,
                                          !.exc = p.exc]
                   ELSE [frames[r] EXCEPT !.pc = "quick", !.debug = <<>>,
                                          !.paths = p.value]))
  /\ UNCHANGED <<env, linger, held, req, resp, registry>>

\* quick = run_quick_check() and the two debug entries
StepQuick(r) ==
  /\ frames[r].pc = "quick"
  /\ \E q \in {run_quick_check(cfg, chk)} :
       frames' = Store(frames, r, Among(frames, r,
                   [frames[r] EXCEPT !.pc = "log", !.quick = q.value,
                                     !.debug = DebugOf(q.value[1])]))
  /\ UNCHANGED <<env, linger, held, req, resp, registry>>

\* log_info = parse_log(log_path); when it raises, the except block returns
StepLog(r) ==
  /\ frames[r].pc = "log"
  /\ \E l \in {parse_log(log)} :
       frames' = Store(frames, r, Among(frames, r,
                   IF l.exc # None
                   THEN [frames[r] EXCEPT
                           !.pc = "done",
                           !.ret = Some(DegradedPayload(frames[r].paths[1],
                                                        frames[r].debug, l.exc[1]))]
                   ELSE [frames[r] EXCEPT !.pc = "web", !.log_info = l.value]))
  /\ UNCHANGED <<env, linger, held, req, resp, registry>>

\* web_status = _systemctl_status(WEB_SERVICE_NAME, user=False)
StepWeb(r) ==
  /\ frames[r].pc = "web"
  /\ frames' = Store(frames, r, Among(frames, r,
                 [frames[r] EXCEPT !.pc = "pf",
                                   !.web_status = Some(_systemctl_status(svc, FALSE))]))
  /\ UNCHANGED <<env, linger, held, req, resp, registry>>

\* pf_status = _systemctl_status(PF_SERVICE_NAME, user=True)
StepPf(r) ==
  /\ frames[r].pc = "pf"
  /\ frames' = Store(frames, r, Among(frames, r,
                 [frames[r] EXCEPT !.pc = "remote",
                                   !.pf_status = Some(_systemctl_status(svc, TRUE))]))
  /\ linger' = LingerAfter(svc, TRUE, linger)
  /\ UNCHANGED <<env, held, req, resp, registry>>

\* the current remote, the source details and the dict returned
StepReturn(r) ==
  /\ frames[r].pc = "remote"
  /\ frames' = Store(frames, r, Among(frames, r,
                 [frames[r] EXCEPT
                    !.pc = "done",
                    !.ret = Some(NormalPayload(
                                   frames[r].paths[1], frames[r].quick[1],
                                   frames[r].log_info[1], frames[r].web_status[1],
                                   frames[r].pf_status[1],
                                   CurrentRemote(_current_remote_from_conf(conf),
                                                 frames[r].quick[1].raw_output),
                                   frames[r].debug))]))
  /\ UNCHANGED <<env, linger, held, req, resp, registry>>

\* the caller has its answer; the frame is gone
Leave(r) ==
  /\ frames[r].pc \in {"done", "raised"}
  /\ frames' = [frames EXCEPT ![r] = NewFrame]
  /\ UNCHANGED <<env, linger, held, req, resp, registry>>

NextPar ==
  \E r \in Requests :
    \/ Enter(r)
    \/ StepQuick(r)
    \/ StepLog(r)
    \/ StepWeb(r)
    \/ StepPf(r)
    \/ StepReturn(r)
    \/ Leave(r)

SpecPar == InitPar /\ [][NextPar]_vars

(***************************************************************************)
(* The registry and symlink operations, one call at a time.                *)
(***************************************************************************)
AddCall(source_id, label, path, enabled, rclone_remote, create_directory) ==
  [source_id |-> source_id, label |-> label, path |-> path, enabled |-> enabled,
   rclone_remote |-> rclone_remote, create_directory |-> create_directory]

\* calls of add_source_to_conf: a new source
\* whose directory is to be created, an id that exists, a label with a field
\* separator, a label with a line break, and a call that no check accepts
AddCalls ==
  {AddCall("new", "New", "/home/pi/Pictures/new_frame", TRUE, "new:photos", TRUE),
   AddCall("kfr", "Koofr again", "/home/pi/Pictures/new_frame", TRUE, "kfr:more", TRUE),
   AddCall("pip", "My|Photos", "/home/pi/Pictures/kfr_frame", FALSE, "pip:photos", FALSE),
   AddCall("brk", "L\nkfr|K|/p|1", "/home/pi/Pictures/kfr_frame", TRUE, "brk:photos", FALSE),
   AddCall("bad id", "Bad", "Pictures/kfr_frame", TRUE, "nocolon", FALSE)}

\* the file-system errors a call may meet; those of the calls that come
\* far enough to meet them
AddFaults(a) ==
  IF a.source_id = "new" THEN {"none", "mkdir", "copy", "write"} ELSE {"none"}

DeleteIds == {"kfr", "new", "nope", " "}

DeleteFaults(source_id) ==
  IF source_id = "kfr" THEN {"none", "read", "copy", "write"} ELSE {"none"}

LiveTargets ==
  {"/home/pi/Pictures/kfr_frame", "/home/pi/Pictures/new_frame",
   "/home/pi/Pictures/readme.txt", "/home/pi/other"}

LiveFaults(target_dir) ==
  IF target_dir = "/home/pi/Pictures/kfr_frame"
  THEN {"none", "unlink", "symlink"} ELSE {"none"}

\* registries whose ids are distinct: none, one source under a comment, and
\* two sources around a blank line and a line with too few fields
RegistryFiles ==
  {MissingFile,
   File(<<"# sources", "kfr|Koofr|/home/pi/Pictures/kfr_frame|1|kfr:photos">>),
   File(<<"kfr|Koofr|/home/pi/Pictures/kfr_frame|1|kfr:photos", "", "old|line",
          " new|New|/home/pi/Pictures/new_frame|0">>)}

InitReg ==
  /\ cfg = "absent"
  /\ chk = RunFailed
  /\ log = MissingFile
  /\ svc = SvcUp
  /\ conf \in RegistryFiles
  /\ linger = TRUE
  /\ arg = AskDefault /\ tool = ToolDefault
  /\ eol \in {e \in BOOLEAN : conf.state = "ok" \/ e}
  /\ bak = None /\ dirs = PictureDirs /\ live = None
  /\ Idle

\* what the operation returned or raised, and what it left on disk
Applied(name, a, o) ==
  /\ op' = name /\ call' = a
  /\ result' = o.value /\ raised' = o.exc
  /\ conf' = o.conf /\ eol' = o.eol /\ bak' = o.bak /\ dirs' = o.dirs
  /\ live' = o.live
  /\ UNCHANGED <<cfg, chk, log, svc, arg, tool, linger, quick, log_info, payload,
                 probe, steps, adds>>

AddSourceToConf ==
  /\ Len(conf.lines) < MaxRegistryLines
  /\ \E a \in AddCalls : \E fault \in AddFaults(a) :
       \E o \in {add_source_to_conf(a, cfg, conf, eol, bak, dirs, live, fault)} :
         Applied("add_source_to_conf", a, o)

DeleteSourceFromConf ==
  \E id \in DeleteIds : \E fault \in DeleteFaults(id) :
    \E o \in {delete_source_from_conf(id, cfg, conf, eol, bak, dirs, live, fault)} :
      Applied("delete_source_from_conf", [source_id |-> id], o)

SetFrameLiveTarget ==
  \E t \in LiveTargets : \E fault \in LiveFaults(t) :
    \E o \in {set_frame_live_target(t, cfg, conf, eol, bak, dirs, live, fault)} :
      Applied("set_frame_live_target", [target_dir |-> t], o)

NextReg ==
  \/ AddSourceToConf
  \/ DeleteSourceFromConf
  \/ SetFrameLiveTarget

SpecReg == InitReg /\ [][NextReg]_vars

(***************************************************************************)
(* add_source_to_conf step by step, several calls in progress at once.     *)
(***************************************************************************)
\* calls that carry the same new id
RaceCalls ==
  {AddCall("new", "New", "/home/pi/Pictures/new_frame", TRUE, "new:photos", TRUE),
   AddCall("new", "Other", "/home/pi/Pictures/kfr_frame", FALSE, "new:other", FALSE)}

InitRace ==
  /\ cfg = "absent"
  /\ chk = RunFailed
  /\ log = MissingFile
  /\ svc = SvcUp
  /\ conf \in {MissingFile,
               File(<<"# sources", "kfr|Koofr|/home/pi/Pictures/kfr_frame|1|kfr:photos">>)}
  /\ linger = TRUE
  /\ arg = AskDefault /\ tool = ToolDefault
  /\ DiskAtRest
  /\ Idle

\* what the steps of a call leave alone
RaceRest == <<cfg, chk, log, svc, arg, tool, linger, held, steps, live, call>>

\* the call returns value
Returns(r, value) == [adds EXCEPT ![r].pc = "done", ![r].ret = value]

\* the call is made; the directory is created where asked for
AddEnter(r) ==
  /\ adds[r].pc = "idle"
  /\ \E a \in RaceCalls :
       /\ adds' = [adds EXCEPT ![r].pc = "validate", ![r].call = a]
       /\ dirs' = DirsAfterCreate(a, dirs, "none")
  /\ UNCHANGED <<RaceRest, conf, eol, bak>>

\* validate_source_data, with the registry as it is now
AddValidate(r) ==
  /\ adds[r].pc = "validate"
  /\ \E a \in {adds[r].call} :
       \E v \in {validate_source_data(a.source_id, a.label, a.path, a.rclone_remote,
                                      get_sources_from_conf(conf, live))} :
         adds' = IF v.ok THEN [adds EXCEPT ![r].pc = "exists"]
                 ELSE Returns(r, Some(v))
  /\ UNCHANGED <<RaceRest, conf, eol, bak, dirs>>

\* conf_path.exists() and the backup copy
AddBackup(r) ==
  /\ adds[r].pc = "exists"
  /\ IF conf.state = "missing"
       THEN adds' = Returns(r, Failure("Config file not found")) /\ bak' = bak
       ELSE /\ adds' = [adds EXCEPT ![r].pc = "append"]
            /\ bak' = Some([lines |-> conf.lines, eol |-> eol])
  /\ UNCHANGED <<RaceRest, conf, eol, dirs>>

\* the line is appended and success is returned
AddAppend(r) ==
  /\ adds[r].pc = "append"
  /\ conf' = [conf EXCEPT !.lines = AppendText(conf.lines, eol, NewLine(adds[r].call))]
  /\ eol' = TRUE
  /\ adds' = Returns(r, Success)
  /\ UNCHANGED <<RaceRest, bak, dirs>>

NextRace ==
  \E r \in Requests :
    \/ AddEnter(r)
    \/ AddValidate(r)
    \/ AddBackup(r)
    \/ AddAppend(r)

SpecRace == InitRace /\ [][NextRace]_vars

(***************************************************************************)
(* Properties.                                                             *)
(***************************************************************************)
StatusRan == op = "get_status_payload"

\* run_quick_check returned, called directly or by get_status_payload
QuickRan == op \in {"run_quick_check", "get_status_payload"} /\ quick # None

\* the script ran, and these are the lines it printed
RawLines == CombinedLines(chk.stdout, chk.stderr)

VerdictTokens == {"mismatch", "differ", "match", "error", "failed"}

\* a "quick check" line that carries one of the verdict words
YieldsVerdict(line) ==
  /\ Contains(Lower(Strip(line)), "quick check")
  /\ \E t \in VerdictTokens : Contains(Lower(Strip(line)), t)

VerdictLines == {i \in 1..Len(RawLines) : YieldsVerdict(RawLines[i])}

LastVerdictLine == RawLines[CHOOSE i \in VerdictLines : \A j \in VerdictLines : j <= i]

BothCounts == quick[1].remote_count # None /\ quick[1].local_count # None

NoCounts == quick[1].remote_count = None /\ quick[1].local_count = None

\* the severity the specification gives to each quick_status
ClaimedSeverity ==
  [match |-> "OK", differ |-> "WARN", error |-> "ERROR", unknown |-> "UNKNOWN"]

Degraded == payload # None /\ "top_level_error" \in DOMAIN payload[1].debug

\* C1 (as claimed): get_status_payload never raises; whatever its
\* collaborators do it returns a payload, and an unexpected failure (here
\* the log reader raising) gives severity ERROR, counts None, timestamps
\* "--" and debug.top_level_error
C1_NeverRaises ==
  StatusRan =>
    /\ raised = None
    /\ payload # None
    /\ log.state = "error" =>
         /\ payload[1].overall.severity = "ERROR"
         /\ payload[1].overall.remote_count = None
         /\ payload[1].overall.local_count = None
         /\ payload[1].activity.last_service_restart = "--"
         /\ payload[1].activity.last_file_download = "--"
         /\ "top_level_error" \in DOMAIN payload[1].debug

\* C2 (as claimed): the payload's severity is the image of quick_status
\* under the fixed mapping, whatever the log reader, the probes and the
\* current-remote lookup do
C2_SeverityFromQuickStatus ==
  (StatusRan /\ payload # None) =>
    payload[1].overall.severity = ClaimedSeverity[quick[1].quick_status]

\* C3 (as claimed): two different counts recovered give quick_status
\* "differ" and severity WARN, whatever a verdict line says
C3_DifferentCountsDiffer ==
  (QuickRan /\ BothCounts /\ quick[1].remote_count # quick[1].local_count) =>
    /\ quick[1].quick_status = "differ"
    /\ payload # None => payload[1].overall.severity = "WARN"

\* C4 (as claimed): equal counts recovered give quick_status "match" and
\* severity OK
C4_EqualCountsMatch ==
  (QuickRan /\ BothCounts /\ quick[1].remote_count = quick[1].local_count) =>
    /\ quick[1].quick_status = "match"
    /\ payload # None => payload[1].overall.severity = "OK"

\* C5 (as claimed): quick_status "match" or "differ" implies that both
\* counts are present
C5_VerdictImpliesCounts ==
  (QuickRan /\ quick[1].quick_status \in {"match", "differ"}) => BothCounts

\* C5 (amended): when no "quick check" line yields a verdict, quick_status
\* "match" or "differ" implies that both counts are present
C5_InferredImpliesCounts ==
  (QuickRan /\ quick[1].quick_status \in {"match", "differ"} /\ VerdictLines = {})
    => BothCounts

\* C5 witness: a verdict inferred from two recovered counts after a failed run
C5_Witness ==
  /\ QuickRan /\ VerdictLines = {} /\ chk.returncode = 1
  /\ quick[1].quick_status = "differ"
  /\ quick[1].remote_count = Some(10) /\ quick[1].local_count = Some(7)

\* C6 (as claimed): a nonzero exit with neither count recovered forces
\* quick_status "error" and severity ERROR, whatever else the output holds
C6_FailedRunIsError ==
  (QuickRan /\ chk.exc = None /\ chk.returncode # 0 /\ NoCounts) =>
    /\ quick[1].quick_status = "error"
    /\ payload # None => payload[1].overall.severity = "ERROR"

\* C6 (amended): a nonzero exit with neither count recovered and no "quick
\* check" line yielding a verdict gives quick_status "error" and severity
\* ERROR, whatever else the output holds
C6_FailedRunNoVerdictIsError ==
  (QuickRan /\ chk.exc = None /\ chk.returncode # 0 /\ NoCounts
     /\ VerdictLines = {}) =>
    /\ quick[1].quick_status = "error"
    /\ payload # None => payload[1].overall.severity = "ERROR"

\* C6 witness: a failed run that printed only text without counts or verdict,
\* reported by a payload assembled on the normal path
C6_Witness ==
  /\ StatusRan /\ payload # None /\ ~Degraded
  /\ chk.exc = None /\ chk.returncode = 1 /\ RawLines # <<>>
  /\ NoCounts /\ VerdictLines = {}
  /\ payload[1].overall.severity = "ERROR"

PayloadFields ==
  {"now", "script_path", "log_path", "overall", "web_status", "pf_status",
   "current_remote", "source_details", "activity", "debug"}

NonEmptyString(v) == v \in STRING /\ v # ""

\* C7: every payload returned has the same complete set of fields, a
\* severity among OK, WARN, ERROR, UNKNOWN, and non-empty web_status,
\* pf_status, current_remote and timestamps
C7_PayloadComplete ==
  payload # None =>
    /\ DOMAIN payload[1] = PayloadFields
    /\ DOMAIN payload[1].overall =
         {"remote_count", "local_count", "severity", "status_text"}
    /\ DOMAIN payload[1].activity =
         {"last_service_restart", "last_file_download", "log_tail"}
    /\ DOMAIN payload[1].source_details =
         {"source_name", "remote_path", "local_path"}
    /\ payload[1].overall.severity \in {"OK", "WARN", "ERROR", "UNKNOWN"}
    /\ NonEmptyString(payload[1].now)
    /\ NonEmptyString(payload[1].web_status)
    /\ NonEmptyString(payload[1].pf_status)
    /\ NonEmptyString(payload[1].current_remote)
    /\ NonEmptyString(payload[1].activity.last_service_restart)
    /\ NonEmptyString(payload[1].activity.last_file_download)
    /\ payload[1].activity.log_tail \in STRING

\* C7 witness: a normal-path payload built from a silent system probe, a
\* config whose label is empty and a log whose last restart line has no
\* valid timestamp
C7_Witness ==
  /\ StatusRan /\ payload # None /\ ~Degraded
  /\ svc.web.stdout = "" /\ svc.web.stderr = "" /\ ~svc.web.exc
  /\ _current_remote_from_conf(conf) = ""
  /\ log.state = "ok" /\ payload[1].activity.last_service_restart = "--"
  /\ payload[1].activity.last_file_download # "--"

\* C8 (as claimed): when the log reader fails, the counts, the severity, the
\* service states and current_remote of the payload are those of the same
\* request with a readable log
C8_LogFailureIsLocal ==
  (StatusRan /\ payload # None /\ log.state = "error") =>
    LET ref == get_status_payload(cfg, chk, File(<<>>), svc, conf).value[1]
    IN /\ payload[1].overall = ref.overall
       /\ payload[1].web_status = ref.web_status
       /\ payload[1].pf_status = ref.pf_status
       /\ payload[1].current_remote = ref.current_remote

\* C9: with both counts recovered and no line yielding a verdict, the
\* verdict is inferred from the counts alone, whatever the exit code
C9_InferredFromCounts ==
  (QuickRan /\ chk.exc = None /\ BothCounts /\ VerdictLines = {}) =>
    quick[1].quick_status =
      IF quick[1].remote_count = quick[1].local_count THEN "match" ELSE "differ"

\* C9 witness: equal counts, no verdict line, and a nonzero exit code
C9_Witness ==
  /\ QuickRan /\ chk.exc = None /\ chk.returncode = 1 /\ VerdictLines = {}
  /\ quick[1].remote_count = Some(10) /\ quick[1].local_count = Some(10)
  /\ quick[1].quick_status = "match"

\* the line holds "match" together with "mismatch" or with "differ"
NegativeAndMatch(line) ==
  /\ Contains(Lower(line), "quick check")
  /\ Contains(Lower(line), "match")
  /\ Contains(Lower(line), "mismatch") \/ Contains(Lower(line), "differ")

\* C10: when the verdict line (the last one that yields a verdict) holds
\* both "match" and "mismatch", or both "match" and "differ", quick_status
\* is "differ" (stated as: when quick_status is not "differ", every such
\* line is followed by a later line that yields a verdict)
C10_NegativeBeforeMatch ==
  (QuickRan /\ chk.exc = None /\ quick[1].quick_status # "differ") =>
    \A i \in 1..Len(RawLines) :
      (YieldsVerdict(RawLines[i]) /\ NegativeAndMatch(RawLines[i])) =>
        \E j \in (i + 1)..Len(RawLines) : YieldsVerdict(RawLines[j])

\* C10 witness: a "match" verdict on stdout followed by a stderr line that
\* holds "differ" and "match", with equal counts
C10_Witness ==
  /\ QuickRan /\ chk.exc = None /\ chk.stderr # <<>>
  /\ \E i \in VerdictLines : ~NegativeAndMatch(RawLines[i])
  /\ NegativeAndMatch(LastVerdictLine)
  /\ ~Contains(Lower(LastVerdictLine), "mismatch")
  /\ quick[1].quick_status = "differ"

\* parse_log returned, called directly
LogRan == op = "parse_log" /\ log_info # None

RestartMarker == "Service picframe.service restarted successfully"

DownloadMarker == "rclone sync completed successfully"

\* the lines of the log as the reader sees them, in file order
LogText == [i \in 1..Len(log.lines) |-> Decode(log.lines[i])]

MarkerLines(marker) == {i \in 1..Len(LogText) : Contains(LogText[i], marker)}

LastMarkerLine(marker) ==
  LogText[CHOOSE i \in MarkerLines(marker) : \A j \in MarkerLines(marker) : j <= i]

\* the first 19 characters of a line (the whole line when it is shorter)
Prefix19(line) == SubSeq(line, 1, IF Len(line) < 19 THEN Len(line) ELSE 19)

\* zero-padded YYYY-MM-DD HH:MM:SS naming a real date and time
CanonicalTimestamp(ts) ==
  /\ Len(ts) = 19
  /\ \A i \in 1..19 :
       IF i \in {5, 8} THEN CharAt(ts, i) = "-"
       ELSE IF i = 11 THEN CharAt(ts, i) = " "
       ELSE IF i \in {14, 17} THEN CharAt(ts, i) = ":"
       ELSE CharAt(ts, i) \in Digits
  /\ DecimalValue(SubSeq(ts, 1, 4), 0) >= 1
  /\ DecimalValue(SubSeq(ts, 6, 7), 0) \in 1..12
  /\ DecimalValue(SubSeq(ts, 9, 10), 0) \in
       1..DaysIn(DecimalValue(SubSeq(ts, 1, 4), 0), DecimalValue(SubSeq(ts, 6, 7), 0))
  /\ DecimalValue(SubSeq(ts, 12, 13), 0) \in 0..23
  /\ DecimalValue(SubSeq(ts, 15, 16), 0) \in 0..59
  /\ DecimalValue(SubSeq(ts, 18, 19), 0) \in 0..59

\* the timestamp the claim gives for a marker, reported is what parse_log gave
TimestampAsClaimed(marker, reported) ==
  /\ MarkerLines(marker) = {} => reported = "--"
  /\ MarkerLines(marker) # {} =>
       /\ reported \in {"--", Prefix19(LastMarkerLine(marker))}
       /\ CanonicalTimestamp(Prefix19(LastMarkerLine(marker)))
            => reported = Prefix19(LastMarkerLine(marker))
       /\ reported # "--" <=> ValidTimestamp(Prefix19(LastMarkerLine(marker)))

C12_MissingLogIsEmpty ==
  (op = "parse_log" /\ log.state = "missing") =>
    /\ raised = None
    /\ log_info = Some([last_service_restart |-> "--",
                         last_file_download |-> "--",
                         log_tail |-> ""])

\* C12 witness: parse_log has answered for a missing log
C12_Witness == LogRan /\ log.state = "missing" /\ log_info[1].log_tail = ""

\* the number of line breaks in a text
Newlines(text) == Cardinality({i \in 1..Len(text) : CharAt(text, i) = "\n"})

\* the last k of the log's lines, joined by line breaks
LastLogLines(k) ==
  Join([i \in 1..k |-> LogText[Len(LogText) - k + i]], "\n")

\* C13: for a log of n lines log_tail is the last min(60, n) lines, in file
\* order, and never holds more than 60 lines
C13_TailIsLastSixty ==
  (LogRan /\ log.state = "ok") =>
    /\ log_info[1].log_tail =
         LastLogLines(IF Len(LogText) < 60 THEN Len(LogText) ELSE 60)
    /\ Newlines(log_info[1].log_tail) < 60

\* C13 witness: a log longer than 60 lines, whose tail starts after line 1
C13_Witness ==
  /\ LogRan /\ log.state = "ok" /\ Len(LogText) > 60
  /\ Newlines(log_info[1].log_tail) = 59
  /\ ~Contains(log_info[1].log_tail, RestartMarker)
  /\ log_info[1].last_service_restart = "2025-11-29 08:00:09"

\* the label the config-file lookup yields ("--" or "" when it yields none)
ConfLabel == _current_remote_from_conf(conf)

\* the label of the "Active source:" line of the quick-check output
QuickLabel == _current_remote_from_quick(RawLines)

\* C15 (as claimed): current_remote is the config-file label whenever the
\* lookup yields one, otherwise the label of the quick-check output, and
\* "--" when neither yields a label
C15_ConfLabelFirst ==
  (StatusRan /\ payload # None) =>
    /\ ConfLabel \notin {"", "--"} => payload[1].current_remote = ConfLabel
    /\ ConfLabel \in {"", "--"} => payload[1].current_remote = QuickLabel
    /\ payload[1].current_remote # ""

\* the same on the payloads assembled without a caught exception
C15_ConfLabelFirstNormalPath == ~Degraded => C15_ConfLabelFirst

\* _systemctl_status returned, called directly
ProbeRan == op = "_systemctl_status" /\ probe # None

\* the service manager as it is, but for the system-scoped query
WithWeb(w) == [svc EXCEPT !.web = w]

\* the service manager as it is, but for the steps of the user-scoped probe
WithUser(l, u, p) == [svc EXCEPT !.linger = l, !.user = u, !.pgrep = p]

FullySuccessful ==
  /\ chk.exc = None /\ chk.returncode = 0 /\ BothCounts /\ VerdictLines # {}
  /\ log.state = "ok"
  /\ ~svc.web.exc /\ ~svc.linger.exc /\ ~svc.user.exc /\ ~svc.pgrep.exc

\* a sub-step failed: the quick check, the log read or a service probe
SubStepFailed ==
  \/ chk.exc # None \/ chk.returncode # 0
  \/ log.state = "error"
  \/ svc.web.exc \/ svc.linger.exc \/ svc.user.exc

\* debug holds nothing: no entry, or only entries that are None or empty
NoDebugContent ==
  \A k \in DOMAIN payload[1].debug : payload[1].debug[k] \in {None, ""}

\* debug holds a diagnostic: an error text of the quick check or of the
\* top-level handler
HasDiagnostic ==
  \/ "top_level_error" \in DOMAIN payload[1].debug
  \/ payload[1].debug.quick_error # None

\* C16 (as claimed): a fully successful status run returns no debug content,
\* and every sub-step failure leaves a diagnostic entry in debug
C16_DebugOnlyWhenDegraded ==
  (StatusRan /\ payload # None) =>
    /\ FullySuccessful => NoDebugContent
    /\ SubStepFailed => HasDiagnostic

\* C16 (amended): debug is in every payload and always holds quick_error and
\* quick_raw_output, the lines the quick check printed; quick_error is set
\* exactly when the quick check could not be run or exited nonzero with
\* neither count recovered, top_level_error is there exactly when the log
\* read raised, and nothing else is recorded
C16_DebugContent ==
  (StatusRan /\ payload # None) =>
    /\ {"quick_error", "quick_raw_output"} \subseteq DOMAIN payload[1].debug
    /\ DOMAIN payload[1].debug
         \subseteq {"quick_error", "quick_raw_output", "top_level_error"}
    /\ payload[1].debug.quick_raw_output = RawLines
    /\ payload[1].debug.quick_error # None
         <=> (chk.exc # None \/ (chk.returncode # 0 /\ NoCounts))
    /\ "top_level_error" \in DOMAIN payload[1].debug <=> log.state = "error"

\* C16 witness: a fully successful run whose debug holds the lines of the
\* quick check and no error text
C16_Witness ==
  /\ StatusRan /\ payload # None /\ FullySuccessful
  /\ payload[1].debug.quick_error = None
  /\ Len(payload[1].debug.quick_raw_output) = 3
  /\ "top_level_error" \notin DOMAIN payload[1].debug

\* an action runner was called
ActionRan == op \in Runners

\* the runner's command ran: subprocess.run was reached and returned
CommandRan ==
  /\ tool.proc.exc = None
  /\ op = "apply_github_update" => tool.state = "ok"

\* C17 (as claimed): each action runner returns {ok, output}, ok being true
\* exactly when the command ran and exited 0, and a missing binary, a
\* timeout or any other exception gives ok = false with a message in
\* output; nothing propagates to the caller
C17_RunnersNeverRaise ==
  ActionRan =>
    /\ raised = None
    /\ result # None
    /\ DOMAIN result[1] = {"ok", "output"}
    /\ result[1].ok <=> (CommandRan /\ tool.proc.returncode = 0)
    /\ ~CommandRan => (~result[1].ok /\ result[1].output # "")

\* the same for the calls whose path lookup did not raise
C17_RunnersNeverRaiseOncePathsResolve == cfg # "error" => C17_RunnersNeverRaise

\* C19 (as claimed): a status fetch changes no external state; the files,
\* the collaborators and the service manager's configuration are after it
\* as they were before
C19_StatusFetchChangesNothing ==
  [][op' = "get_status_payload" => (env' = env /\ linger' = linger)]_vars

\* C19 (amended): a status fetch changes no file and no collaborator; the
\* one thing it may change is session linger for user pi, which it enables,
\* and only when the fetch reached the probes (the log read did not raise)
\* and "loginctl enable-linger pi" ran and exited 0; it never disables it
C19_OnlyLingerChanges ==
  [][op' = "get_status_payload" =>
       /\ env' = env
       /\ linger => linger'
       /\ linger' # linger =>
            /\ log.state # "error" /\ cfg # "error"
            /\ ~svc.linger.exc /\ svc.linger.returncode = 0]_vars

\* C19 witness: a status fetch has run on a system where linger was off and
\* linger is now on
C19_Witness ==
  /\ StatusRan /\ payload # None /\ ~Degraded
  /\ svc.linger = Exited("", "", 0)
  /\ linger

\* a request is being served command by command
Serving == req.handler # "none"

\* the command subprocess.run is waiting for
Waiting == req.running # None

\* no command was spawned twice within the request
SpawnedOnce ==
  \A i, j \in 1..Len(req.spawned) : req.spawned[i] = req.spawned[j] => i = j

\* C18: every command spawned while serving a request carries a timeout, so
\* every request eventually returns even when a command hangs forever, and
\* no command is invoked again within the request.
C18_TimeoutsBoundEveryRequest ==
  /\ [](Waiting => req.running[1].cmd.timeout # NoTimeout)
  /\ [](Serving => SpawnedOnce)
  /\ Serving ~> ~Serving

\* C18, for the handlers of status_backend.py alone: their commands carry
\* timeouts, their requests return, and no command is spawned twice.
C18_BackendRequestsReturn ==
  /\ []((Waiting /\ req.handler \in BackendHandlers)
          => req.running[1].cmd.timeout # NoTimeout)
  /\ [](Serving => SpawnedOnce)
  /\ (req.handler \in BackendHandlers) ~> ~Serving

\* an execution of get_status_payload has returned or raised
Finished(r) == frames[r].pc \in {"done", "raised"}

\* what the execution gave is what get_status_payload gives when run alone
\* on the same collaborators
AsAlone(r) ==
  \E alone \in {get_status_payload(cfg, chk, log, svc, conf)} :
    frames[r].ret = alone.value /\ frames[r].exc = alone.exc

\* C20: under every interleaving of the executions of get_status_payload on
\* the same external outputs, each one returns the payload (or raises the
\* exception) that it gives when it runs alone.
C20_ConcurrentRequestsIndependent == \A r \in Requests : Finished(r) => AsAlone(r)

\* two executions whose statements ran among each other's have both
\* returned, one of them the payload of the normal path
C20_Witness ==
  \E r, q \in Requests :
    /\ r # q
    /\ frames[r].pc = "done" /\ frames[r].overlapped
    /\ frames[q].pc = "done" /\ frames[q].overlapped
    /\ frames[r].ret[1].overall.status_text # "Backend error"

\* the line holds "match" together with "error" or with "failed"
ErrorAndMatch(line) ==
  /\ Contains(Lower(line), "quick check")
  /\ Contains(Lower(line), "match")
  /\ Contains(Lower(line), "error") \/ Contains(Lower(line), "failed")

\* C21: a "quick check" line that holds "error" or "failed" together with
\* "match" never yields quick_status "match" (stated as: when quick_status is
\* "match", every such line is followed by a later line that yields a
\* verdict)
C21_ErrorBeforeMatch ==
  (QuickRan /\ chk.exc = None /\ quick[1].quick_status = "match") =>
    \A i \in 1..Len(RawLines) :
      ErrorAndMatch(RawLines[i]) =>
        \E j \in (i + 1)..Len(RawLines) : YieldsVerdict(RawLines[j])

\* a line for the remote count, and one for the local count
RemoteCountLine(line) == Contains(Lower(line), "remote file count")

LocalCountLine(line) ==
  /\ ~RemoteCountLine(line)
  /\ Contains(Lower(line), "local") /\ Contains(Lower(line), "file count")

\* the integer a count line gives: the first whitespace-delimited token
\* after the first colon, when there is one and it parses; None otherwise
NumberAfterColon(line) ==
  LET colons == {i \in 1..Len(line) : CharAt(line, i) = ":"}
  IN IF colons = {} THEN None
     ELSE LET first == CHOOSE i \in colons : \A j \in colons : i <= j
              tok == FirstToken(SubSeq(line, first + 1, Len(line)))
          IN IF tok = None THEN None ELSE ParseInt(tok[1])

\* a count line whose value does not parse
MalformedCountLine(line) ==
  (RemoteCountLine(line) \/ LocalCountLine(line)) /\ NumberAfterColon(line) = None

\* the value of the last line among idx that gives one; None when none does
LastNumber(idx) ==
  LET good == {i \in idx : NumberAfterColon(RawLines[i]) # None}
  IN IF good = {} THEN None
     ELSE NumberAfterColon(RawLines[CHOOSE i \in good : \A j \in good : j <= i])

RemoteLines == {i \in 1..Len(RawLines) : RemoteCountLine(RawLines[i])}

LocalLines == {i \in 1..Len(RawLines) : LocalCountLine(RawLines[i])}

WellFormed(line) == ~MalformedCountLine(line)

UserProbeRan == ProbeRan /\ probe[1].user

\* the linger step failed: loginctl could not be run, timed out, or exited
\* nonzero
LingerFailed == svc.linger.exc \/ svc.linger.returncode # 0

\* C22: a failure of the linger step is ignored: the state returned for the
\* user-scoped service is the one the status query and the process-list
\* fallback give when the linger step succeeds.
C22_LingerFailureIgnored ==
  (UserProbeRan /\ LingerFailed) =>
    probe[1].value
      = _systemctl_status(WithUser(Exited("", "", 0), svc.user, svc.pgrep), TRUE)

\* C22, for a linger step that ran and exited nonzero
C22_LingerExitCodeIgnored == ~svc.linger.exc => C22_LingerFailureIgnored

\* the user-scope status query gave a definite state
DefiniteState == ~svc.user.exc /\ IsActiveStatus(svc.user) # "unknown"

\* pgrep found a running process of the target user
ProcessFound ==
  /\ ~svc.pgrep.exc /\ svc.pgrep.returncode = 0
  /\ svc.pgrep.stdout # "" \/ svc.pgrep.stderr # ""

\* C23: the state of the user-scoped service is the definite state of the
\* status query when it gave one; otherwise (the query returned nothing,
\* could not connect, or failed) the process list decides: "active" when a
\* matching process runs, "unknown" when none does.
C23_FallbackExactlyWhenIndefinite ==
  UserProbeRan =>
    probe[1].value = IF DefiniteState THEN IsActiveStatus(svc.user)
                     ELSE IF ProcessFound THEN "active" ELSE "unknown"

\* C23, when neither the linger step nor the status query raised
C23_FallbackWhenQueryReturns ==
  (~svc.linger.exc /\ ~svc.user.exc) => C23_FallbackExactlyWhenIndefinite

\* what get_sources_from_conf returns now, returned before the step, and
\* returns after it
Sources == get_sources_from_conf(conf, live)

SourcesBefore == get_sources_from_conf(conf, live)

SourcesAfter == get_sources_from_conf(conf', live')

Distinct(sources) ==
  \A i, j \in 1..Len(sources) : sources[i].id = sources[j].id => i = j

\* the step is a call of name that returns success, or failure
ReturnsSuccess(name) == op' = name /\ raised' = None /\ result' = Success

ReturnsFailure(name) ==
  op' = name /\ raised' = None /\ result' # None /\ ~result'[1].ok

\* C25: after any sequence of add_source_to_conf and delete_source_from_conf
\* calls on a registry whose ids were distinct, no two entries that
\* get_sources_from_conf returns have the same id.
C25_IdsStayDistinct == Distinct(Sources)

\* C25, for the calls whose label holds no line break
C25_IdsStayDistinctOnOneLine ==
  [][(op' = "add_source_to_conf" /\ Contains(call'.label, "\n"))
       \/ (Distinct(SourcesBefore) => Distinct(SourcesAfter))]_vars

\* the entry that the arguments of add_source_to_conf describe
EntryOf(a, current_target) ==
  [id |-> a.source_id, label |-> a.label, path |-> a.path, enabled |-> a.enabled,
   active |-> current_target = Some(a.path), remote |-> a.rclone_remote]

\* C27: after add_source_to_conf returns success, get_sources_from_conf
\* returns the entries it returned before, unchanged and in the same order,
\* followed by exactly one new entry whose id, label, path, enabled flag and
\* remote equal the arguments.
C27_AddAppendsTheEntry ==
  [][ReturnsSuccess("add_source_to_conf")
       => SourcesAfter = Append(SourcesBefore, EntryOf(call', live'))]_vars

\* C27, for a registry that ends with a line break and arguments that hold
\* neither a field separator nor a line break
C27_AddAppendsTheEntryToEndedFile ==
  [][(ReturnsSuccess("add_source_to_conf") /\ (eol \/ conf.lines = <<>>)
        /\ \A v \in {call'.label, call'.path, call'.rclone_remote} :
              ~Contains(v, "|") /\ ~Contains(v, "\n"))
       => SourcesAfter = Append(SourcesBefore, EntryOf(call', live'))]_vars

\* C28: whenever set_frame_live_target returns failure, frame_live still
\* points where it pointed before the call.
C28_FailureKeepsLink ==
  [][ReturnsFailure("set_frame_live_target") => live' = live]_vars

\* C29: whenever add_source_to_conf returns failure, the registry file is
\* unmodified and no directory has been created.
C29_FailedAddChangesNothing ==
  [][ReturnsFailure("add_source_to_conf")
       => conf' = conf /\ eol' = eol /\ dirs' = dirs]_vars

\* C29, for the calls that do not ask for the directory
C29_FailedAddKeepsRegistry ==
  [][ReturnsFailure("add_source_to_conf") => conf' = conf /\ eol' = eol]_vars

\* the line is an entry of the registry with this id
EntryWithId(raw, source_id) ==
  SourceOf(raw, None) # None /\ SourceOf(raw, None)[1].id = source_id

\* the lines that are not entries with this id, in their order
OtherLines(lines, source_id) ==
  SelectSeq(lines, LAMBDA raw : ~EntryWithId(raw, source_id))

\* C30: a successful delete_source_from_conf(id) removes exactly the entries
\* whose id is id and leaves every other line present in the same order, the
\* previous content being the backup; when no entry has that id it returns
\* failure and writes neither the registry nor its backup.
C30_DeleteRemovesExactlyTheId ==
  [][op' = "delete_source_from_conf"
       => \E kept \in {OtherLines(conf.lines, call'.source_id)} :
            /\ ReturnsSuccess("delete_source_from_conf")
                 => (/\ kept # conf.lines
                     /\ conf'.lines = IF kept = <<>> THEN <<"">> ELSE kept
                     /\ bak' = Some([lines |-> conf.lines, eol |-> eol])
                     /\ dirs' = dirs /\ live' = live)
            /\ (conf.state # "ok" \/ kept = conf.lines)
                 => (/\ ReturnsFailure("delete_source_from_conf")
                     /\ conf' = conf /\ eol' = eol /\ bak' = bak)]_vars

\* the source "new" has been deleted from the registry of two sources: the
\* other source, the blank line and the line with too few fields are left,
\* the backup holds the four lines
C30_Witness ==
  /\ op = "delete_source_from_conf" /\ call.source_id = "new" /\ result = Success
  /\ bak # None /\ Len(bak[1].lines) = 4 /\ bak[1].lines[3] = "old|line"
  /\ conf.lines = <<bak[1].lines[1], "", "old|line">>
  /\ Len(Sources) = 1 /\ Sources[1].id = "kfr"

\* the calls that returned success with this id
Succeeded(source_id) ==
  {r \in Requests : /\ adds[r].pc = "done" /\ adds[r].ret = Success
                    /\ adds[r].call.source_id = source_id}

\* C26: two concurrent add_source_to_conf requests with the same new source
\* id cannot both succeed: under every interleaving of their duplicate check
\* and their append, at most one entry with that id ends up in the registry.
C26_OneAddWinsTheId ==
  \A r \in Requests :
    adds[r].pc # "idle"
      => /\ Cardinality(Succeeded(adds[r].call.source_id)) <= 1
         /\ Cardinality({i \in 1..Len(Sources) :
                           Sources[i].id = adds[r].call.source_id}) <= 1

\* C26, for calls of which one returns before the other validates
C26_OneAddAfterTheOther ==
  [][\A r \in Requests :
       (adds[r].pc = "validate" /\ adds'[r].pc = "exists")
         => \A i \in 1..Len(SourcesBefore) :
              SourcesBefore[i].id # adds[r].call.source_id]_vars

=============================================================================
